---- MODULE Spec2Model ----
(***************************************************************************)
(* VideoStove (run_main.py): the media-assembly engine VideoCreator, with  *)
(* its three mode pipelines, and the VideoStoveAPI that runs it on worker  *)
(* threads.  Durations are whole time units.  Every external engine        *)
(* invocation (run_ffmpeg) is a blocking call: the frame sits at           *)
(* pc = "run_ffmpeg" while the process is in flight, and run_ffmpeg_exit   *)
(* draws its exit status.                                                  *)
(***************************************************************************)
EXTENDS Integers, Sequences, FiniteSets, TLC

\* ---------------------------------------------------------------- bounds
MaxImages == 2
MaxVideos == 2
MaxWorkers == 2
MaxUpdates == 1
MaxProjects == 3
MaxClips == 3
MaxClipDuration == 3
MaxCrossfade == 4

Workers == 1..MaxWorkers
ImageDurations == {2}
VideoDurations == {2, 3}
AudioDurations == {3, 7}
CrossfadeDurations == {1}
Modes == {"slideshow", "montage", "videos_only"}
OverlayArgs == {"none", "missing", "present"}

VARIABLES
    CONFIG,             \* the module-level CONFIG dict (the keys the pipelines read)
    rs,                 \* per thread: the frame of the VideoCreator call it runs
    active_processes,   \* VideoStoveAPI.active_processes: handles <<thread, n>>
    api,                \* the other fields of the VideoStoveAPI object
    batch,              \* the batch loop: GUI batch worker or CLI wizard
    headless,           \* render_with_run_main: its position, its files in gettempdir()
    call                \* the library function under study: its arguments, its outcome

vars == <<CONFIG, rs, active_processes, api, batch, headless, call>>

\* ------------------------------------------------------------- utilities
Min(a, b) == IF a < b THEN a ELSE b
Max(a, b) == IF a > b THEN a ELSE b
\* math.ceil(a / b) for positive a, b
Ceil(a, b) == (a + b - 1) \div b

RECURSIVE SumSeq(_)
SumSeq(s) == IF s = <<>> THEN 0 ELSE Head(s) + SumSeq(Tail(s))

\* variant: the list written once whatever the number of loops
Repeat_Once(s, n) == s

RECURSIVE Repeat(_, _)
Repeat(s, n) == IF n <= 0 THEN <<>> ELSE s \o Repeat(s, n - 1)

SeqsUpTo(S, n) == UNION {[1..k -> S] : k \in 0..n}

\* ----------------------------------------------------------------- files
\* A media file: its duration, whether the overlay is composited into it,
\* and whether a fade-in / fade-out is baked into its head / tail.
File(d) == [dur |-> d, ov |-> FALSE, fi |-> FALSE, fo |-> FALSE]
NoFile == File(0)
NoName == <<"none", 0>>

\* the working directory (tempfile.TemporaryDirectory): path -> file
EmptyDir == [n \in {} |-> NoFile]

Durs(files) == [j \in 1..Len(files) |-> files[j].dur]

\* ------------------------------------------------------- engine commands
\* An ffmpeg command line: op is the kind of invocation, srcs the input
\* files, out the output path, t the -t limit (0: none), loop the
\* -stream_loop count of the first input (0: none, -1: endless), off and d
\* the xfade offset and duration, fi / fo the fade filters requested, vcopy
\* whether the video stream is copied (-c copy / -c:v copy).
Cmd(op, srcs, out) ==
    [op |-> op, srcs |-> srcs, out |-> out, t |-> 0, loop |-> 0,
     off |-> 0, d |-> 0, fi |-> FALSE, fo |-> FALSE, vcopy |-> FALSE,
     reads |-> {}]
NoCmd == Cmd("none", <<>>, NoName)

\* What the engine writes when the invocation exits 0.
EngineOutput(c) ==
    LET s1 == c.srcs[1]
        n  == Len(c.srcs)
        total == SumSeq(Durs(c.srcs))
    IN  CASE c.op = "audio"   -> File(s1.dur)
          [] c.op = "motion"  -> [File(c.t) EXCEPT !.fi = c.fi, !.fo = c.fo]
          [] c.op = "video"   -> [File(IF c.t > 0 THEN Min(s1.dur, c.t) ELSE s1.dur)
                                     EXCEPT !.fi = c.fi, !.fo = c.fo]
          [] c.op = "xfade"   -> [File(c.off + c.srcs[2].dur)
                                     EXCEPT !.fi = s1.fi, !.fo = c.srcs[2].fo]
          [] c.op \in {"concat_copy", "concat_reencode", "black_fade"} ->
                                 [File(IF c.t > 0 THEN Min(total, c.t) ELSE total)
                                     EXCEPT !.ov = \E j \in 1..n : c.srcs[j].ov,
                                            !.fi = s1.fi, !.fo = c.srcs[n].fo \/ c.fo]
          [] c.op = "overlay" -> [s1 EXCEPT !.dur = c.t, !.ov = TRUE]
          [] c.op = "loop"    -> [s1 EXCEPT !.dur = IF c.loop < 0 THEN c.t
                                                   ELSE Min((c.loop + 1) * s1.dur, c.t)]
          [] c.op = "trim"    -> [s1 EXCEPT !.dur = Min(s1.dur, c.t)]
          [] c.op = "fade"    -> [s1 EXCEPT !.fi = @ \/ c.fi, !.fo = @ \/ c.fo]
          [] c.op = "mix"     -> File(c.t)
          [] c.op = "mux"     -> [s1 EXCEPT !.dur = Min(Max(s1.dur, c.srcs[2].dur), c.t)]

\* ------------------------------------------------------- VideoStoveAPI
\* __init__: nothing selected, not processing. at_cancel keeps the handles
\* that were in the registry when cancel_processing ran and are still alive.
NewApi ==
    [is_processing |-> FALSE, processing_cancelled |-> FALSE,
     current_settings |-> <<>>,
     image_files |-> 0, video_files |-> <<>>, main_audio |-> 0,
     bg_music |-> FALSE, overlay_video |-> "none", output_path |-> FALSE,
     nupdates |-> 0, at_cancel |-> {}]

\* no library function is being called
NoCall == [fn |-> "none", pc |-> "idle", args |-> <<>>, result |-> <<>>]

\* The batch loop's own state when no batch runs. runner is "gui"
\* (VideoStoveAPI.batch_generation_worker) or "cli" (cmd_wizard);
\* found_projects is the list the loop iterates (projects_plan in the CLI),
\* i the number of projects whose loop body has started.
NoBatch ==
    [runner |-> "none", pc |-> "idle", found_projects |-> <<>>, i |-> 0,
     successful |-> 0, failed |-> 0, render_results |-> <<>>,
     current_settings |-> <<>>, preset_config |-> <<>>, mode |-> "none",
     bgm |-> FALSE, overlay |-> "none",
     ALLOW_CPU |-> FALSE, gpu |-> FALSE, exit_code |-> -1, toast |-> "none"]

\* The headless bridge when it does not run. tempdir is what the bridge has
\* created in tempfile.gettempdir(); main_audio_file is find_main_audio's
\* result for the input directory (0: none).
NoHeadless ==
    [pc |-> "idle", tempdir |-> {}, main_audio_file |-> 0,
     inputs |-> <<>>, tmp_visual |-> NoFile, final_path |-> NoFile]

\* ----------------------------------------------------------------- frame
IdleFrame ==
    [pc |-> "idle", k |-> "idle", rc |-> FALSE, cmd |-> NoCmd, nproc |-> 0,
     tracked |-> FALSE, ended |-> "none",
     settings_snapshot |-> <<>>, cancel_requested |-> FALSE, outcome |-> "none",
     image_files |-> 0, video_files |-> <<>>, main_audio |-> 0,
     bg_music |-> FALSE, overlay_video |-> "none", unreadable |-> {}, undeletable |-> {},
     empty_audio |-> FALSE,
     wd |-> EmptyDir, audio_duration |-> 0, i |-> 0, clips |-> <<>>,
     cur |-> NoName, master |-> NoName, final_audio |-> NoName,
     total_video_duration |-> 0, needs_looping |-> FALSE, loops_needed |-> 0,
     intro_clips |-> <<>>, overlaid_intro_clips |-> <<>>, remaining_time |-> 0,
     slideshow_base |-> NoName, overlaid_slideshow_base |-> NoName,
     output |-> NoFile, result |-> "none"]

Put(wd, name, file) == [n \in DOMAIN wd \cup {name} |-> IF n = name THEN file ELSE wd[n]]
Remove(wd, names) == [n \in DOMAIN wd \ names |-> wd[n]]
Range(s) == {s[j] : j \in 1..Len(s)}
FilesOf(wd, names) == [j \in 1..Len(names) |-> wd[names[j]]]

\* The source files of a call, as files.
AudioFile(f) == File(IF f.empty_audio THEN 0 ELSE f.main_audio)

\* variant: the probe returns whatever duration the file reports
ProbeFails_Never(file) == FALSE

\* get_media_duration raises for a duration that is not positive
ProbeFails(file) == file.dur <= 0
VideoFile(f, j) == File(f.video_files[j])

\* `return val` out of the `with tempfile.TemporaryDirectory()` block: the
\* working directory is removed with everything in it.
Return(f, val) ==
    [f EXCEPT !.pc = "returned", !.result = IF val THEN "true" ELSE "false",
              !.wd = EmptyDir]

\* self.run_ffmpeg(cmd, ...): the call blocks until run_ffmpeg_exit; k is
\* the place the caller resumes at.
Call(f, c, k) == [f EXCEPT !.pc = "run_ffmpeg", !.cmd = c, !.k = k]


\* Every pipeline step ends here: the thread's frame becomes f2, and a
\* process spawned by run_ffmpeg is appended to the API's registry when the
\* creator's callback is a method of the API (run_ffmpeg, "Track this
\* process for force kill").
Commit(w, f2) ==
    /\ UNCHANGED <<api, batch, headless, call>>
    /\ IF f2.pc = "run_ffmpeg"
       THEN /\ rs' = [rs EXCEPT ![w] = [f2 EXCEPT !.nproc = @ + 1, !.ended = "none"]]
            /\ active_processes' = IF f2.tracked
                                   THEN active_processes \cup {<<w, f2.nproc + 1>>}
                                   ELSE active_processes
       ELSE /\ rs' = [rs EXCEPT ![w] = [f2 EXCEPT !.ended = "none"]]
            /\ UNCHANGED active_processes

\* ------------------------------------------------------ command builders
AudioName == <<"audio.mp3", 0>>
CycleName == <<"slideshow_one_cycle.mp4", 0>>
MasterName == <<"master_no_audio.mp4", 0>>
ImageName(i) == <<"image.mp4", i>>
CrossfadeName(i) == <<"crossfade.mp4", i>>

ProcessAudioCmd(f) ==
    [Cmd("audio", <<AudioFile(f)>>, AudioName) EXCEPT !.reads = {"main_audio"}]

\* create_motion_clip: the duration argument is overridden by
\* CONFIG["image_duration"]; fades only on the first / last clip.
create_motion_clip(f, i, is_first, is_last) ==
    [Cmd("motion", <<NoFile>>, ImageName(i)) EXCEPT
        !.t = CONFIG.image_duration,
        !.fi = CONFIG.use_fade_in /\ is_first,
        !.fo = CONFIG.use_fade_out /\ is_last]

\* one step of apply_crossfade_transitions: current_video x next_clip
\* variant: every step combines the first clip, not the running result
CrossfadeCmd_FromFirst(f, i) ==
    LET current_duration == f.wd[f.clips[1]].dur
        crossfade_duration == CONFIG.crossfade_duration
    IN  [Cmd("xfade", <<f.wd[f.clips[1]], f.wd[f.clips[i + 1]]>>, CrossfadeName(i)) EXCEPT
            !.d = crossfade_duration,
            !.off = Max(0, current_duration - crossfade_duration)]

\* variant: the offset is the whole running duration (nothing overlaps)
CrossfadeCmd_NoOverlap(f, i) ==
    LET current_duration == f.wd[f.cur].dur
        crossfade_duration == CONFIG.crossfade_duration
    IN  [Cmd("xfade", <<f.wd[f.cur], f.wd[f.clips[i + 1]]>>, CrossfadeName(i)) EXCEPT
            !.d = crossfade_duration,
            !.off = current_duration]

CrossfadeCmd(f, i) ==
    LET current_duration == f.wd[f.cur].dur
        crossfade_duration == CONFIG.crossfade_duration
    IN  [Cmd("xfade", <<f.wd[f.cur], f.wd[f.clips[i + 1]]>>, CrossfadeName(i)) EXCEPT
            !.d = crossfade_duration,
            !.off = Max(0, current_duration - crossfade_duration)]

\* build_gpu_stream_copy_cmd(list, out, extra_args=['-f','concat',...])
build_concat_stream_copy_cmd(files, out) ==
    [Cmd("concat_copy", files, out) EXCEPT !.vcopy = TRUE]
build_concat_fallback_cmd(files, out) == Cmd("concat_reencode", files, out)

\* the command of apply_overlay (both blend modes end in -t duration)
apply_overlay_cmd(base, out, duration) ==
    [Cmd("overlay", <<base>>, out) EXCEPT !.t = duration, !.reads = {"overlay_video"}]

\* variant: a failed overlay leaves an empty output file
apply_overlay_result_NoCopy(f, base, out) ==
    IF f.rc THEN f.wd ELSE Put(f.wd, out, NoFile)

\* apply_overlay after its run_ffmpeg: on failure the base is copied to the
\* output path; it returns True either way.
apply_overlay_result(f, base, out) ==
    IF f.rc THEN f.wd ELSE Put(f.wd, out, f.wd[base])

\* slideshow STAGE 4: ffmpeg -stream_loop -1 -i cycle -c copy -t audio
SlideshowLoopCmd(f) ==
    [Cmd("loop", <<f.wd[f.cur]>>, <<"temp_looped.mp4", 0>>) EXCEPT
        !.loop = -1, !.t = f.audio_duration, !.vcopy = TRUE]

\* variant: the fade stage runs the loop-fit once more
SlideshowFadeCmd_Reloop(f) ==
    [Cmd("loop", <<f.wd[<<"temp_looped.mp4", 0>>]>>, MasterName) EXCEPT
        !.loop = -1, !.t = f.audio_duration, !.vcopy = TRUE]

SlideshowFadeCmd(f) ==
    [Cmd("fade", <<f.wd[<<"temp_looped.mp4", 0>>]>>, MasterName) EXCEPT
        !.fi = CONFIG.use_fade_in, !.fo = CONFIG.use_fade_out]

AudioMixCmd(f) ==
    [Cmd("mix", <<f.wd[AudioName]>>, <<"mixed_audio.mp3", 0>>) EXCEPT
        !.t = f.audio_duration, !.reads = {"bg_music"}]

\* the final mux of slideshow and montage: -c:v copy, -t audio_duration
FinalMuxCmd(f, video, audio) ==
    [Cmd("mux", <<video, audio>>, <<"output", 0>>) EXCEPT
        !.t = f.audio_duration, !.vcopy = TRUE]

\* ------------------------------------------------------------ run_ffmpeg
\* How the process ends: it exits with 0 (the output file is written), it
\* exits with another code, or reading its output raises and the except
\* clause kills it. The last two return False. The handle leaves the
\* registry (the finally clause).
ProcessEnds == {"exit_0", "exit_1", "killed"}

\* variant: the handle of a process killed in an except clause stays
finally_remove_OnExit(registry, h, end) ==
    IF end = "killed" THEN registry ELSE registry \ {h}

\* the finally clause of run_ffmpeg: the handle leaves the registry
finally_remove(registry, h, end) == registry \ {h}

run_ffmpeg_exit(w) ==
    LET f == rs[w]
        h == <<w, f.nproc>>
    IN
    /\ f.pc = "run_ffmpeg"
    /\ \E end \in ProcessEnds :
          LET ok == (end = "exit_0") IN
          /\ (f.cmd.reads \cap f.unreadable # {}) => ~ok
          /\ rs' = [rs EXCEPT ![w] = [f EXCEPT
                    !.pc = f.k, !.rc = ok,
                    !.ended = IF f.tracked THEN end ELSE @,
                    !.wd = IF ok /\ f.cmd.op # "mux"
                           THEN Put(f.wd, f.cmd.out, EngineOutput(f.cmd)) ELSE @,
                    !.output = IF ok /\ f.cmd.op = "mux"
                               THEN EngineOutput(f.cmd) ELSE @]]
          /\ active_processes' = finally_remove(active_processes, h, end)
    /\ api' = [api EXCEPT !.at_cancel = @ \ {h}]
    /\ UNCHANGED <<CONFIG, batch, headless, call>>

\* ------------------------------------------------------ create_slideshow
create_slideshow(w) ==
    LET f == rs[w] IN
    /\ f.pc = "create_slideshow"
    /\ UNCHANGED CONFIG
    /\ Commit(w,
         IF f.main_audio = 0 THEN Return(f, FALSE)
         ELSE IF f.image_files = 0 /\ f.video_files = <<>> THEN Return(f, FALSE)
         ELSE IF CONFIG.project_type = "slideshow"
              THEN IF f.image_files = 0 THEN Return(f, FALSE)
                   ELSE [f EXCEPT !.pc = "ss_start"]
         ELSE IF CONFIG.project_type = "videos_only"
              THEN IF f.video_files = <<>> THEN Return(f, FALSE)
                   ELSE [f EXCEPT !.pc = "vo_start"]
         ELSE [f EXCEPT !.pc = "mo_start"])

\* ============================================ create_slideshow_original
\* STAGE 1: process audio
SS_ProcessAudio(w) ==
    LET f == rs[w] IN
    /\ f.pc = "ss_start"
    /\ UNCHANGED CONFIG
    /\ Commit(w, Call(f, ProcessAudioCmd(f), "ss_audio"))

\* STAGE 2: probe the audio, build the first motion clip
SS_AfterAudio(w) ==
    LET f == rs[w]
        f1 == [f EXCEPT !.audio_duration = f.wd[AudioName].dur, !.i = 0, !.clips = <<>>]
    IN
    /\ f.pc = "ss_audio"
    /\ UNCHANGED CONFIG
    /\ Commit(w, IF ~f.rc THEN Return(f, FALSE)
                 ELSE IF ProbeFails(f.wd[AudioName]) THEN Return(f, FALSE)
                 ELSE Call(f1, create_motion_clip(f1, 0, FALSE, FALSE), "ss_clip"))

\* variant: the motion clips stay in the working directory
CycleAssembled_KeepClips(f, cycle) ==
    [f EXCEPT !.wd = Put(f.wd, CycleName, cycle),
              !.cur = CycleName, !.pc = "ss_overlay"]

\* The cycle is assembled: the motion clips go, except those os.remove
\* fails on (the exception is logged and the loop goes on).
CycleAssembled(f, cycle) ==
    [f EXCEPT !.wd = Remove(Put(f.wd, CycleName, cycle), Range(f.clips) \ f.undeletable),
              !.cur = CycleName, !.pc = "ss_overlay"]

\* the motion-clip loop, then the start of the cycle assembly
SS_AfterClip(w) ==
    LET f == rs[w]
        f1 == [f EXCEPT !.clips = Append(@, ImageName(f.i)), !.i = @ + 1]
    IN
    /\ f.pc = "ss_clip"
    /\ UNCHANGED CONFIG
    /\ Commit(w,
         IF ~f.rc THEN Return(f, FALSE)
         ELSE IF f1.i < f.image_files
              THEN Call(f1, create_motion_clip(f1, f1.i, FALSE, FALSE), "ss_clip")
         ELSE IF CONFIG.use_crossfade /\ Len(f1.clips) > 1
              THEN LET f2 == [f1 EXCEPT !.cur = f1.clips[1], !.i = 1]
                   IN  Call(f2, CrossfadeCmd(f2, 1), "ss_xfade")
         ELSE LET f2 == [f1 EXCEPT !.wd = Put(@, <<"concat_images.txt", 0>>, NoFile)]
              IN  Call(f2, build_concat_stream_copy_cmd(FilesOf(f2.wd, f2.clips), CycleName),
                       "ss_concat"))

\* apply_crossfade_transitions, one step done
SS_AfterCrossfade(w) ==
    LET f == rs[w]
        f1 == [f EXCEPT !.cur = CrossfadeName(f.i), !.i = @ + 1]
        temps == {CrossfadeName(j) : j \in 1..Len(f.clips)}
    IN
    /\ f.pc = "ss_xfade"
    /\ UNCHANGED CONFIG
    /\ Commit(w,
         IF ~f.rc THEN Return(f, FALSE)
         ELSE IF f1.i <= Len(f.clips) - 1
              THEN Call(f1, CrossfadeCmd(f1, f1.i), "ss_xfade")
         ELSE CycleAssembled([f1 EXCEPT !.wd = Remove(@, temps)], f1.wd[f1.cur]))

\* the stream-copy concatenation returned: fall back to re-encoding
SS_AfterConcat(w) ==
    LET f == rs[w] IN
    /\ f.pc = "ss_concat"
    /\ UNCHANGED CONFIG
    /\ Commit(w,
         IF f.rc THEN CycleAssembled(f, f.wd[CycleName])
         ELSE Call(f, build_concat_fallback_cmd(FilesOf(f.wd, f.clips), CycleName),
                   "ss_concat_fb"))

SS_AfterConcatFallback(w) ==
    LET f == rs[w] IN
    /\ f.pc = "ss_concat_fb"
    /\ UNCHANGED CONFIG
    /\ Commit(w, IF ~f.rc THEN Return(f, FALSE) ELSE CycleAssembled(f, f.wd[CycleName]))

\* STAGE 3: overlay on the one cycle, else straight to STAGE 4
SS_Overlay(w) ==
    LET f == rs[w]
        out == <<"slideshow_cycle_overlay.mp4", 0>>
        copied == [f EXCEPT !.wd = Put(@, out, f.wd[f.cur]), !.cur = out]
    IN
    /\ f.pc = "ss_overlay"
    /\ UNCHANGED CONFIG
    /\ Commit(w,
         IF CONFIG.use_overlay /\ f.overlay_video # "none"
         THEN IF f.overlay_video = "missing"
              THEN Call(copied, SlideshowLoopCmd(copied), "ss_loop")
              ELSE Call(f, apply_overlay_cmd(f.wd[f.cur], out, f.wd[f.cur].dur),
                        "ss_overlay_done")
         ELSE Call(f, SlideshowLoopCmd(f), "ss_loop"))

\* apply_overlay returned (always True); STAGE 4: loop the cycle
SS_AfterOverlay(w) ==
    LET f == rs[w]
        out == <<"slideshow_cycle_overlay.mp4", 0>>
        f1 == [f EXCEPT !.wd = apply_overlay_result(f, f.cur, out), !.cur = out]
    IN
    /\ f.pc = "ss_overlay_done"
    /\ UNCHANGED CONFIG
    /\ Commit(w, Call(f1, SlideshowLoopCmd(f1), "ss_loop"))

\* fades on the full-length video
SS_AfterLoop(w) ==
    LET f == rs[w] IN
    /\ f.pc = "ss_loop"
    /\ UNCHANGED CONFIG
    /\ Commit(w,
         IF ~f.rc THEN Return(f, FALSE)
         ELSE IF CONFIG.use_fade_in \/ CONFIG.use_fade_out
              THEN Call(f, SlideshowFadeCmd(f), "ss_fade")
         ELSE [f EXCEPT !.wd = Put(@, MasterName, f.wd[<<"temp_looped.mp4", 0>>]),
                        !.master = MasterName, !.pc = "ss_final"])

SS_AfterFade(w) ==
    LET f == rs[w] IN
    /\ f.pc = "ss_fade"
    /\ UNCHANGED CONFIG
    /\ Commit(w, IF ~f.rc THEN Return(f, FALSE)
                 ELSE [f EXCEPT !.master = MasterName, !.pc = "ss_final"])

\* STAGE 5: pre-mix the audio when there is background music, else mux
SS_Final(w) ==
    LET f == rs[w]
        f1 == [f EXCEPT !.final_audio = AudioName]
    IN
    /\ f.pc = "ss_final"
    /\ UNCHANGED CONFIG
    /\ Commit(w,
         IF CONFIG.use_bg_music /\ f.bg_music
         THEN Call(f1, AudioMixCmd(f1), "ss_mix")
         ELSE Call(f1, FinalMuxCmd(f1, f1.wd[f1.master], f1.wd[f1.final_audio]), "ss_mux"))

SS_AfterMix(w) ==
    LET f == rs[w]
        f1 == [f EXCEPT !.final_audio = IF f.rc THEN <<"mixed_audio.mp3", 0>> ELSE @]
    IN
    /\ f.pc = "ss_mix"
    /\ UNCHANGED CONFIG
    /\ Commit(w, Call(f1, FinalMuxCmd(f1, f1.wd[f1.master], f1.wd[f1.final_audio]), "ss_mux"))

SS_AfterMux(w) ==
    LET f == rs[w] IN
    /\ f.pc = "ss_mux"
    /\ UNCHANGED CONFIG
    /\ Commit(w, Return(f, f.rc))

Slideshow(w) ==
    \/ SS_ProcessAudio(w) \/ SS_AfterAudio(w) \/ SS_AfterClip(w)
    \/ SS_AfterCrossfade(w) \/ SS_AfterConcat(w) \/ SS_AfterConcatFallback(w)
    \/ SS_Overlay(w) \/ SS_AfterOverlay(w) \/ SS_AfterLoop(w) \/ SS_AfterFade(w)
    \/ SS_Final(w) \/ SS_AfterMix(w) \/ SS_AfterMux(w)

\* ==================================================== create_videos_only
ProcessedName(i) == <<"processed_video.mp4", i>>

\* process_video_clip without overlay: scale, optional fades, re-encode
process_video_clip(src, out, apply_fade_in, apply_fade_out) ==
    [Cmd("video", <<src>>, out) EXCEPT
        !.fi = apply_fade_in /\ CONFIG.use_fade_in,
        !.fo = apply_fade_out /\ CONFIG.use_fade_out]

\* the i-th (0-based) call of process_video_clip in create_videos_only
VO_ClipCmd(f, i) ==
    LET is_first == (i = 0)
        is_last == (i = Len(f.video_files) - 1) /\ ~f.needs_looping
    IN  process_video_clip(VideoFile(f, i + 1), ProcessedName(i),
                           is_first /\ CONFIG.use_fade_in, is_last /\ CONFIG.use_fade_out)

\* variant: the trim without its -t argument
TrimCmd_NoLimit(src, out, duration) ==
    [Cmd("trim", <<src>>, out) EXCEPT !.t = 0, !.vcopy = TRUE]

\* build_gpu_stream_copy_cmd(src, out, duration=...): stream-copy trim
TrimCmd(src, out, duration) ==
    [Cmd("trim", <<src>>, out) EXCEPT !.t = duration, !.vcopy = TRUE]

\* fade=t=out on the whole video (re-encode)
FadeOutCmd(src, out) == [Cmd("fade", <<src>>, out) EXCEPT !.fo = TRUE]

\* '-stream_loop -1 -i bg_music' of a final command: the background music is
\* an input when it is enabled and a path was passed
BgMusicInput(f) == IF CONFIG.use_bg_music /\ f.bg_music THEN {"bg_music"} ELSE {}

\* the final command of create_videos_only: video re-encoded, audio mixed
\* in the same command, -t audio_duration
VO_FinalCmd(f) ==
    [Cmd("mux", <<f.wd[f.cur], AudioFile(f)>>, <<"output", 0>>) EXCEPT
        !.t = f.audio_duration,
        !.reads = {"main_audio"} \cup BgMusicInput(f)]

\* probe audio and videos, decide on looping, process the first video
VO_Start(w) ==
    LET f == rs[w]
        audio_duration == AudioFile(f).dur
        total == SumSeq(f.video_files)
        looping == total < audio_duration
        f1 == [f EXCEPT !.audio_duration = audio_duration,
                        !.total_video_duration = total,
                        !.needs_looping = looping,
                        !.loops_needed = IF looping THEN Ceil(audio_duration, total) ELSE 0,
                        !.i = 0, !.clips = <<>>]
    IN
    /\ f.pc = "vo_start"
    /\ UNCHANGED CONFIG
    /\ Commit(w, IF "main_audio" \in f.unreadable \/ ProbeFails(AudioFile(f))
                 THEN Return(f, FALSE)
                 ELSE Call(f1, VO_ClipCmd(f1, 0), "vo_clip"))

\* the processing loop, then the list file and the concatenation
VO_AfterClip(w) ==
    LET f == rs[w]
        f1 == [f EXCEPT !.clips = Append(@, ProcessedName(f.i)), !.i = @ + 1]
        listed == IF f.needs_looping THEN Repeat(f1.clips, f.loops_needed) ELSE f1.clips
        f2 == [f1 EXCEPT !.wd = Put(@, <<"video_list.txt", 0>>, NoFile)]
    IN
    /\ f.pc = "vo_clip"
    /\ UNCHANGED CONFIG
    /\ Commit(w,
         IF ~f.rc THEN Return(f, FALSE)
         ELSE IF f1.i < Len(f.video_files) THEN Call(f1, VO_ClipCmd(f1, f1.i), "vo_clip")
         ELSE Call(f2, build_concat_stream_copy_cmd(FilesOf(f2.wd, listed),
                                                    <<"concatenated_videos.mp4", 0>>),
                   "vo_concat"))

\* trim to the audio length if the videos are longer
VO_AfterConcat(w) ==
    LET f == rs[w]
        cat == <<"concatenated_videos.mp4", 0>>
        f1 == [f EXCEPT !.cur = cat]
    IN
    /\ f.pc = "vo_concat"
    /\ UNCHANGED CONFIG
    /\ Commit(w,
         IF ~f.rc THEN Return(f, FALSE)
         ELSE IF f.wd[cat].dur > f.audio_duration
              THEN Call(f1, TrimCmd(f.wd[cat], <<"trimmed_videos.mp4", 0>>, f.audio_duration),
                        "vo_trim")
         ELSE [f1 EXCEPT !.pc = "vo_overlay"])

VO_AfterTrim(w) ==
    LET f == rs[w] IN
    /\ f.pc = "vo_trim"
    /\ UNCHANGED CONFIG
    /\ Commit(w, [f EXCEPT !.cur = IF f.rc THEN <<"trimmed_videos.mp4", 0>> ELSE @,
                           !.pc = "vo_overlay"])

\* overlay on the whole compilation, for audio_duration
VO_Overlay(w) ==
    LET f == rs[w]
        out == <<"videos_with_overlay.mp4", 0>>
    IN
    /\ f.pc = "vo_overlay"
    /\ UNCHANGED CONFIG
    /\ Commit(w,
         IF CONFIG.use_overlay /\ f.overlay_video # "none"
         THEN IF f.overlay_video = "missing"
              THEN [f EXCEPT !.wd = Put(@, out, f.wd[f.cur]), !.cur = out, !.pc = "vo_fade"]
              ELSE Call(f, apply_overlay_cmd(f.wd[f.cur], out, f.audio_duration),
                        "vo_overlay_done")
         ELSE [f EXCEPT !.pc = "vo_fade"])

VO_AfterOverlay(w) ==
    LET f == rs[w]
        out == <<"videos_with_overlay.mp4", 0>>
    IN
    /\ f.pc = "vo_overlay_done"
    /\ UNCHANGED CONFIG
    /\ Commit(w, [f EXCEPT !.wd = apply_overlay_result(f, f.cur, out), !.cur = out,
                           !.pc = "vo_fade"])

\* final fade-out of a looped compilation, else the final command
VO_Fade(w) ==
    LET f == rs[w] IN
    /\ f.pc = "vo_fade"
    /\ UNCHANGED CONFIG
    /\ Commit(w,
         IF f.needs_looping /\ CONFIG.use_fade_out
         THEN Call(f, FadeOutCmd(f.wd[f.cur], <<"videos_with_fadeout.mp4", 0>>), "vo_fade_done")
         ELSE Call(f, VO_FinalCmd(f), "vo_mux"))

VO_AfterFade(w) ==
    LET f == rs[w]
        f1 == [f EXCEPT !.cur = IF f.rc THEN <<"videos_with_fadeout.mp4", 0>> ELSE @]
    IN
    /\ f.pc = "vo_fade_done"
    /\ UNCHANGED CONFIG
    /\ Commit(w, Call(f1, VO_FinalCmd(f1), "vo_mux"))

VO_AfterMux(w) ==
    LET f == rs[w] IN
    /\ f.pc = "vo_mux"
    /\ UNCHANGED CONFIG
    /\ Commit(w, Return(f, f.rc))

VideosOnly(w) ==
    \/ VO_Start(w) \/ VO_AfterClip(w) \/ VO_AfterConcat(w) \/ VO_AfterTrim(w)
    \/ VO_Overlay(w) \/ VO_AfterOverlay(w) \/ VO_Fade(w) \/ VO_AfterFade(w)
    \/ VO_AfterMux(w)

\* ============================================== create_montage_optimized
IntroName(i) == <<"intro_video.mp4", i>>
IntroOverlaidName(i) == <<"intro_overlaid.mp4", i>>
LoopedName == <<"slideshow_looped.mp4", 0>>
CycleOverlaidName == <<"slideshow_cycle_overlaid.mp4", 0>>
IntroMasterName == <<"intro_master.mp4", 0>>
SlideshowMasterName == <<"slideshow_master.mp4", 0>>

\* the i-th (0-based) intro video: fade-in on the first, fade-out on the
\* last when there are no images
MO_IntroCmd(f, i) ==
    LET is_first_video == (i = 0)
        is_last_video == (i = Len(f.video_files) - 1) /\ f.image_files = 0
    IN  process_video_clip(VideoFile(f, i + 1), IntroName(i), is_first_video, is_last_video)

\* the i-th (0-based) motion clip of the one cycle
MO_MotionCmd(f, i) ==
    LET total_image_duration_cycle == f.image_files * CONFIG.image_duration
        is_first == (i = 0) /\ f.intro_clips = <<>>
        will_loop == f.remaining_time > total_image_duration_cycle
        is_last == (i = f.image_files - 1) /\ ~will_loop
    IN  create_motion_clip(f, i, is_first, is_last)

\* ffmpeg -stream_loop (loops_needed - 1) -i cycle -c copy -t remaining_time
MO_FirstLoopCmd(f) ==
    LET cycle_duration == f.wd[CycleName].dur
        loops == Ceil(f.remaining_time, cycle_duration)
    IN  [Cmd("loop", <<f.wd[CycleName]>>, LoopedName) EXCEPT
            !.loop = loops - 1, !.t = f.remaining_time, !.vcopy = TRUE]

\* STAGE 1: process audio
MO_ProcessAudio(w) ==
    LET f == rs[w] IN
    /\ f.pc = "mo_start"
    /\ UNCHANGED CONFIG
    /\ Commit(w, Call(f, ProcessAudioCmd(f), "mo_audio"))

\* STAGE 2: probe the audio; the first intro video, if any
MO_AfterAudio(w) ==
    LET f == rs[w]
        f1 == [f EXCEPT !.audio_duration = f.wd[AudioName].dur, !.i = 0,
                        !.intro_clips = <<>>, !.total_video_duration = 0,
                        !.slideshow_base = NoName]
        f2 == [f1 EXCEPT !.total_video_duration = @ + f.video_files[1]]
    IN
    /\ f.pc = "mo_audio"
    /\ UNCHANGED CONFIG
    /\ Commit(w,
         IF ~f.rc THEN Return(f, FALSE)
         ELSE IF ProbeFails(f.wd[AudioName]) THEN Return(f, FALSE)
         ELSE IF f.video_files # <<>> /\ CONFIG.use_videos
              THEN Call(f2, MO_IntroCmd(f2, 0), "mo_intro")
         ELSE [f1 EXCEPT !.pc = "mo_images"])

\* an intro video was processed: a failed one is skipped, its duration
\* stays counted
MO_AfterIntro(w) ==
    LET f == rs[w]
        f1 == [f EXCEPT !.intro_clips = IF f.rc THEN Append(@, IntroName(f.i)) ELSE @,
                        !.i = @ + 1]
        f2 == [f1 EXCEPT !.total_video_duration = @ + f.video_files[f1.i + 1]]
    IN
    /\ f.pc = "mo_intro"
    /\ UNCHANGED CONFIG
    /\ Commit(w,
         IF f1.i < Len(f.video_files) THEN Call(f2, MO_IntroCmd(f2, f1.i), "mo_intro")
         ELSE [f1 EXCEPT !.pc = "mo_images"])

\* time remaining for images; the first motion clip of the one cycle
MO_Images(w) ==
    LET f == rs[w]
        f1 == [f EXCEPT !.remaining_time = f.audio_duration - f.total_video_duration,
                        !.i = 0, !.clips = <<>>]
    IN
    /\ f.pc = "mo_images"
    /\ UNCHANGED CONFIG
    /\ Commit(w,
         IF f1.remaining_time > 0 /\ f.image_files > 0
         THEN Call(f1, MO_MotionCmd(f1, 0), "mo_clip")
         ELSE [f1 EXCEPT !.pc = "mo_overlay_intro"])

\* the cycle is assembled and probed; loop it when more time is needed
MO_CycleAssembled(f, cycle) ==
    LET f1 == [f EXCEPT !.wd = Remove(Put(f.wd, CycleName, cycle), Range(f.clips) \ f.undeletable),
                        !.slideshow_base = CycleName]
    IN  IF f1.remaining_time > cycle.dur
        THEN Call(f1, MO_FirstLoopCmd(f1), "mo_loop")
        ELSE [f1 EXCEPT !.pc = "mo_overlay_intro"]

MO_AfterClip(w) ==
    LET f == rs[w]
        f1 == [f EXCEPT !.clips = Append(@, ImageName(f.i)), !.i = @ + 1]
    IN
    /\ f.pc = "mo_clip"
    /\ UNCHANGED CONFIG
    /\ Commit(w,
         IF ~f.rc THEN Return(f, FALSE)
         ELSE IF f1.i < f.image_files THEN Call(f1, MO_MotionCmd(f1, f1.i), "mo_clip")
         ELSE IF CONFIG.use_crossfade /\ Len(f1.clips) > 1
              THEN LET f2 == [f1 EXCEPT !.cur = f1.clips[1], !.i = 1]
                   IN  Call(f2, CrossfadeCmd(f2, 1), "mo_xfade")
         ELSE LET f2 == [f1 EXCEPT !.wd = Put(@, <<"concat_images.txt", 0>>, NoFile)]
              IN  Call(f2, build_concat_stream_copy_cmd(FilesOf(f2.wd, f2.clips), CycleName),
                       "mo_concat"))

MO_AfterCrossfade(w) ==
    LET f == rs[w]
        f1 == [f EXCEPT !.cur = CrossfadeName(f.i), !.i = @ + 1]
        temps == {CrossfadeName(j) : j \in 1..Len(f.clips)}
    IN
    /\ f.pc = "mo_xfade"
    /\ UNCHANGED CONFIG
    /\ Commit(w,
         IF ~f.rc THEN Return(f, FALSE)
         ELSE IF f1.i <= Len(f.clips) - 1
              THEN Call(f1, CrossfadeCmd(f1, f1.i), "mo_xfade")
         ELSE MO_CycleAssembled([f1 EXCEPT !.wd = Remove(@, temps)], f1.wd[f1.cur]))

MO_AfterConcat(w) ==
    LET f == rs[w] IN
    /\ f.pc = "mo_concat"
    /\ UNCHANGED CONFIG
    /\ Commit(w,
         IF f.rc THEN MO_CycleAssembled(f, f.wd[CycleName])
         ELSE Call(f, build_concat_fallback_cmd(FilesOf(f.wd, f.clips), CycleName),
                   "mo_concat_fb"))

MO_AfterConcatFallback(w) ==
    LET f == rs[w] IN
    /\ f.pc = "mo_concat_fb"
    /\ UNCHANGED CONFIG
    /\ Commit(w, IF ~f.rc THEN Return(f, FALSE) ELSE MO_CycleAssembled(f, f.wd[CycleName]))

MO_AfterLoop(w) ==
    LET f == rs[w] IN
    /\ f.pc = "mo_loop"
    /\ UNCHANGED CONFIG
    /\ Commit(w, IF ~f.rc THEN Return(f, FALSE)
                 ELSE [f EXCEPT !.slideshow_base = LoopedName, !.pc = "mo_overlay_intro"])

\* variant: the loop count itself is passed to -stream_loop
MO_MasterLoopCmd_Count(f) ==
    LET cycle_duration == f.wd[f.overlaid_slideshow_base].dur
        loops == Ceil(f.remaining_time, cycle_duration)
    IN  [Cmd("loop", <<f.wd[f.overlaid_slideshow_base]>>, SlideshowMasterName) EXCEPT
            !.loop = loops, !.t = f.remaining_time, !.vcopy = TRUE]

\* variant: floor + 1 in place of the ceiling
MO_MasterLoopCmd_Floor(f) ==
    LET cycle_duration == f.wd[f.overlaid_slideshow_base].dur
        loops == (f.remaining_time \div cycle_duration) + 1
    IN  [Cmd("loop", <<f.wd[f.overlaid_slideshow_base]>>, SlideshowMasterName) EXCEPT
            !.loop = loops - 1, !.t = f.remaining_time, !.vcopy = TRUE]

\* ffmpeg -stream_loop (loops_needed - 1) -i base -c copy -t remaining_time
MO_MasterLoopCmd(f) ==
    LET cycle_duration == f.wd[f.overlaid_slideshow_base].dur
        loops == Ceil(f.remaining_time, cycle_duration)
    IN  [Cmd("loop", <<f.wd[f.overlaid_slideshow_base]>>, SlideshowMasterName) EXCEPT
            !.loop = loops - 1, !.t = f.remaining_time, !.vcopy = TRUE]

\* STAGE 3, step 1: overlay on each intro video
MO_IntroOverlayCmd(f, i) ==
    apply_overlay_cmd(f.wd[f.intro_clips[i + 1]], IntroOverlaidName(i),
                      f.wd[f.intro_clips[i + 1]].dur)

RECURSIVE CopyAll(_, _, _)
CopyAll(wd, names, j) ==
    IF j > Len(names) THEN wd
    ELSE CopyAll(Put(wd, IntroOverlaidName(j - 1), wd[names[j]]), names, j + 1)

MO_OverlayIntro(w) ==
    LET f == rs[w]
        n == Len(f.intro_clips)
        f1 == [f EXCEPT !.i = 0, !.overlaid_intro_clips = <<>>]
    IN
    /\ f.pc = "mo_overlay_intro"
    /\ UNCHANGED CONFIG
    /\ Commit(w,
         IF f.intro_clips # <<>> /\ CONFIG.use_overlay /\ f.overlay_video # "none"
         THEN IF f.overlay_video = "missing"
              THEN [f1 EXCEPT !.wd = CopyAll(f.wd, f.intro_clips, 1),
                              !.overlaid_intro_clips = [j \in 1..n |-> IntroOverlaidName(j - 1)],
                              !.pc = "mo_overlay_cycle"]
              ELSE Call(f1, MO_IntroOverlayCmd(f1, 0), "mo_overlay_intro_done")
         ELSE [f1 EXCEPT !.overlaid_intro_clips = f.intro_clips, !.pc = "mo_overlay_cycle"])

MO_AfterOverlayIntro(w) ==
    LET f == rs[w]
        out == IntroOverlaidName(f.i)
        f1 == [f EXCEPT !.wd = apply_overlay_result(f, f.intro_clips[f.i + 1], out),
                        !.overlaid_intro_clips = Append(@, out), !.i = @ + 1]
    IN
    /\ f.pc = "mo_overlay_intro_done"
    /\ UNCHANGED CONFIG
    /\ Commit(w,
         IF f1.i < Len(f.intro_clips)
         THEN Call(f1, MO_IntroOverlayCmd(f1, f1.i), "mo_overlay_intro_done")
         ELSE [f1 EXCEPT !.pc = "mo_overlay_cycle"])

\* STAGE 3, step 2: overlay on the clean single cycle
MO_OverlayCycle(w) ==
    LET f == rs[w] IN
    /\ f.pc = "mo_overlay_cycle"
    /\ UNCHANGED CONFIG
    /\ Commit(w,
         IF f.slideshow_base # NoName /\ CONFIG.use_overlay /\ f.overlay_video # "none"
         THEN IF f.overlay_video = "missing"
              THEN [f EXCEPT !.wd = Put(@, CycleOverlaidName, f.wd[CycleName]),
                             !.overlaid_slideshow_base = CycleOverlaidName,
                             !.pc = "mo_stage4"]
              ELSE Call(f, apply_overlay_cmd(f.wd[CycleName], CycleOverlaidName,
                                             f.wd[CycleName].dur),
                        "mo_overlay_cycle_done")
         ELSE [f EXCEPT !.overlaid_slideshow_base = f.slideshow_base, !.pc = "mo_stage4"])

MO_AfterOverlayCycle(w) ==
    LET f == rs[w] IN
    /\ f.pc = "mo_overlay_cycle_done"
    /\ UNCHANGED CONFIG
    /\ Commit(w, [f EXCEPT !.wd = apply_overlay_result(f, CycleName, CycleOverlaidName),
                           !.overlaid_slideshow_base = CycleOverlaidName,
                           !.pc = "mo_stage4"])

\* STAGE 4: the master video
MO_Stage4(w) ==
    LET f == rs[w]
        intros == f.overlaid_intro_clips
        remaining_time == f.audio_duration - f.total_video_duration
        f1 == [f EXCEPT !.remaining_time = remaining_time]
        listed(name) == [f1 EXCEPT !.wd = Put(@, <<name, 0>>, NoFile)]
        copied(name) == [f1 EXCEPT !.wd = Put(@, name, f.wd[intros[1]])]
    IN
    /\ f.pc = "mo_stage4"
    /\ UNCHANGED CONFIG
    /\ Commit(w,
         IF remaining_time <= 0
         THEN IF intros = <<>> THEN Return(f, FALSE)
              ELSE IF Len(intros) > 1
                   THEN Call(listed("final_intro_concat.txt"),
                             [build_concat_stream_copy_cmd(FilesOf(f.wd, intros), MasterName)
                                 EXCEPT !.t = f.audio_duration],
                             "mo_trim")
              ELSE Call(f1, TrimCmd(f.wd[intros[1]], MasterName, f.audio_duration), "mo_trim")
         ELSE IF f.overlaid_slideshow_base = NoName
         THEN IF intros = <<>> THEN Return(f, FALSE)
              ELSE IF Len(intros) > 1
                   THEN Call(listed("final_intro_concat.txt"),
                             build_concat_stream_copy_cmd(FilesOf(f.wd, intros), MasterName),
                             "mo_trim")
              ELSE [copied(MasterName) EXCEPT !.pc = "mo_final"]
         ELSE IF intros = <<>> THEN [f1 EXCEPT !.pc = "mo_slideshow_master"]
              ELSE IF Len(intros) > 1
                   THEN Call(listed("intro_concat.txt"),
                             build_concat_stream_copy_cmd(FilesOf(f.wd, intros), IntroMasterName),
                             "mo_intro_master")
              ELSE [copied(IntroMasterName) EXCEPT !.pc = "mo_slideshow_master"])

\* the intro-only master was written (trimmed or combined)
MO_AfterTrim(w) ==
    LET f == rs[w] IN
    /\ f.pc = "mo_trim"
    /\ UNCHANGED CONFIG
    /\ Commit(w, IF ~f.rc THEN Return(f, FALSE) ELSE [f EXCEPT !.pc = "mo_final"])

MO_AfterIntroMaster(w) ==
    LET f == rs[w] IN
    /\ f.pc = "mo_intro_master"
    /\ UNCHANGED CONFIG
    /\ Commit(w, IF ~f.rc THEN Return(f, FALSE) ELSE [f EXCEPT !.pc = "mo_slideshow_master"])

\* step 2: the slideshow master
MO_SlideshowMaster(w) ==
    LET f == rs[w] IN
    /\ f.pc = "mo_slideshow_master"
    /\ UNCHANGED CONFIG
    /\ Commit(w, Call(f, MO_MasterLoopCmd(f), "mo_loop2"))

\* step 3: final assembly of the masters
MO_AfterMasterLoop(w) ==
    LET f == rs[w]
        has_intro == IntroMasterName \in DOMAIN f.wd
        components == IF has_intro THEN <<IntroMasterName, SlideshowMasterName>>
                      ELSE <<SlideshowMasterName>>
        f1 == [f EXCEPT !.wd = Put(@, <<"final_concat.txt", 0>>, NoFile)]
    IN
    /\ f.pc = "mo_loop2"
    /\ UNCHANGED CONFIG
    /\ Commit(w,
         IF ~f.rc THEN Return(f, FALSE)
         ELSE IF Len(components) = 1
              THEN IF CONFIG.use_fade_out
                   THEN Call(f, FadeOutCmd(f.wd[components[1]], MasterName), "mo_fade1")
                   ELSE [f EXCEPT !.wd = Put(@, MasterName, f.wd[components[1]]),
                                  !.pc = "mo_final"]
         ELSE IF CONFIG.black_fade_transition
              THEN Call(f1, [Cmd("black_fade", FilesOf(f.wd, components), MasterName)
                                EXCEPT !.fo = CONFIG.use_fade_out],
                        "mo_black_fade")
         ELSE Call(f1, build_concat_stream_copy_cmd(FilesOf(f.wd, components), MasterName),
                   "mo_join"))

MO_AfterFadeSingle(w) ==
    LET f == rs[w] IN
    /\ f.pc = "mo_fade1"
    /\ UNCHANGED CONFIG
    /\ Commit(w, [f EXCEPT !.wd = IF f.rc THEN @
                                  ELSE Put(@, MasterName, f.wd[SlideshowMasterName]),
                           !.pc = "mo_final"])

MO_AfterBlackFade(w) ==
    LET f == rs[w] IN
    /\ f.pc = "mo_black_fade"
    /\ UNCHANGED CONFIG
    /\ Commit(w, IF ~f.rc THEN Return(f, FALSE) ELSE [f EXCEPT !.pc = "mo_final"])

\* the final stream-copy join of the masters, then the separate fade-out
MO_AfterJoin(w) ==
    LET f == rs[w]
        temp_final == <<"temp_final.mp4", 0>>
        moved == [f EXCEPT !.wd = Remove(Put(@, temp_final, f.wd[MasterName]), {MasterName})]
    IN
    /\ f.pc = "mo_join"
    /\ UNCHANGED CONFIG
    /\ Commit(w,
         IF ~f.rc THEN Return(f, FALSE)
         ELSE IF CONFIG.use_fade_out
              THEN Call(moved, FadeOutCmd(moved.wd[temp_final], MasterName), "mo_fade2")
         ELSE [f EXCEPT !.pc = "mo_final"])

MO_AfterFadeJoined(w) ==
    LET f == rs[w]
        temp_final == <<"temp_final.mp4", 0>>
    IN
    /\ f.pc = "mo_fade2"
    /\ UNCHANGED CONFIG
    /\ Commit(w, [f EXCEPT !.wd = IF f.rc THEN @
                                  ELSE Remove(Put(@, MasterName, f.wd[temp_final]), {temp_final}),
                           !.pc = "mo_final"])

\* STAGE 5: final assembly
MO_Final(w) ==
    LET f == rs[w] IN
    /\ f.pc = "mo_final"
    /\ UNCHANGED CONFIG
    /\ Commit(w, Call(f, [FinalMuxCmd(f, f.wd[MasterName], f.wd[AudioName])
                               EXCEPT !.reads = BgMusicInput(f)], "mo_mux"))

MO_AfterMux(w) ==
    LET f == rs[w] IN
    /\ f.pc = "mo_mux"
    /\ UNCHANGED CONFIG
    /\ Commit(w, Return(f, f.rc))

Montage(w) ==
    \/ MO_ProcessAudio(w) \/ MO_AfterAudio(w) \/ MO_AfterIntro(w) \/ MO_Images(w)
    \/ MO_AfterClip(w) \/ MO_AfterCrossfade(w) \/ MO_AfterConcat(w)
    \/ MO_AfterConcatFallback(w) \/ MO_AfterLoop(w)
    \/ MO_OverlayIntro(w) \/ MO_AfterOverlayIntro(w)
    \/ MO_OverlayCycle(w) \/ MO_AfterOverlayCycle(w)
    \/ MO_Stage4(w) \/ MO_AfterTrim(w) \/ MO_AfterIntroMaster(w)
    \/ MO_SlideshowMaster(w) \/ MO_AfterMasterLoop(w) \/ MO_AfterFadeSingle(w)
    \/ MO_AfterBlackFade(w) \/ MO_AfterJoin(w) \/ MO_AfterFadeJoined(w)
    \/ MO_Final(w) \/ MO_AfterMux(w)

\* -------------------------------------------------- the render, called
\* directly (videostove_cli/render.py: vc.create_slideshow with the preset
\* in CONFIG)
ConfigSpace ==
    [project_type : Modes, image_duration : ImageDurations,
     use_crossfade : BOOLEAN, crossfade_duration : CrossfadeDurations,
     use_overlay : BOOLEAN, use_bg_music : {TRUE},
     use_fade_in : BOOLEAN, use_fade_out : BOOLEAN, use_videos : {TRUE},
     black_fade_transition : BOOLEAN]

\* videostove_cli/render.py prepare_media_for_mode: the lists handed to
\* create_slideshow for a scanned project
prepare_media_for_mode(images, videos, mode) ==
    CASE mode = "slideshow"   -> [images |-> images, videos |-> <<>>]
      [] mode = "videos_only" -> [images |-> 0, videos |-> videos]
      [] OTHER                -> [images |-> images, videos |-> videos]

InitRender ==
    /\ CONFIG \in ConfigSpace
    /\ \E n \in 0..MaxImages, vs \in SeqsUpTo(VideoDurations, MaxVideos),
          a \in AudioDurations \cup {0}, bg \in BOOLEAN, ov \in OverlayArgs :
          LET m == prepare_media_for_mode(n, vs, CONFIG.project_type) IN
          /\ CONFIG.use_overlay = (ov # "none")
          /\ rs = [w \in Workers |->
                  IF w = 1
                  THEN [IdleFrame EXCEPT !.pc = "create_slideshow",
                           !.image_files = m.images, !.video_files = m.videos,
                           !.main_audio = a, !.bg_music = bg, !.overlay_video = ov]
                  ELSE IdleFrame]
    /\ active_processes = {}
    /\ api = NewApi
    /\ batch = NoBatch
    /\ headless = NoHeadless
    /\ call = NoCall

NextRender ==
    \E w \in Workers :
        \/ create_slideshow(w) \/ Slideshow(w) \/ VideosOnly(w) \/ Montage(w)
        \/ run_ffmpeg_exit(w)

SpecRender == InitRender /\ [][NextRender]_vars


\* ================================================= VideoStoveAPI (the GUI)
\* the keys of DEFAULT_CONFIG among the modelled ones
DefaultKeys == DOMAIN CONFIG \ {"black_fade_transition"}

\* the names update_setting is called with; the last is not a key of
\* DEFAULT_CONFIG
SettingNames == {"use_overlay", "use_crossfade", "use_fade_out", "black_fade_transition"}

\* CONFIG.update(settings)
ConfigUpdate(settings) ==
    [key \in DOMAIN CONFIG |->
        IF key \in DOMAIN settings THEN settings[key] ELSE CONFIG[key]]

validate_single_inputs ==
    /\ api.image_files + Len(api.video_files) # 0
    /\ api.main_audio # 0
    /\ api.output_path

Alive(f) == f.pc \notin {"idle", "done"}

\* the worker's frame once create_slideshow has returned: the creator's
\* locals are gone
WorkerFrame(f, pc, outcome) ==
    [IdleFrame EXCEPT !.pc = pc, !.outcome = outcome, !.tracked = TRUE,
                      !.settings_snapshot = f.settings_snapshot,
                      !.cancel_requested = f.cancel_requested]

\* generate_video: refuse while processing; else snapshot the settings,
\* reset the cancellation flag and start the worker thread
generate_video ==
    /\ \E w \in Workers : rs[w].pc = "idle"
    /\ LET w == CHOOSE v \in Workers :
                   rs[v].pc = "idle" /\ \A u \in Workers : rs[u].pc = "idle" => v <= u
           settings_snapshot == api.current_settings
       IN  IF api.is_processing \/ ~validate_single_inputs
           THEN UNCHANGED vars
           ELSE /\ api' = [api EXCEPT !.processing_cancelled = FALSE,
                                      !.is_processing = TRUE]
                /\ rs' = [rs EXCEPT ![w] = [IdleFrame EXCEPT
                              !.pc = "w_start", !.tracked = TRUE,
                              !.settings_snapshot = settings_snapshot]]
                /\ UNCHANGED <<CONFIG, active_processes, batch, headless, call>>

\* cancel_processing: set the flag, clear is_processing. Nothing in
\* active_processes is touched.
cancel_processing ==
    /\ api' = [api EXCEPT !.processing_cancelled = TRUE,
                          !.is_processing = FALSE,
                          !.at_cancel = @ \cup active_processes]
    /\ rs' = [w \in Workers |->
                IF Alive(rs[w]) /\ rs[w].outcome = "none" /\ rs[w].pc # "w_finally"
                THEN [rs[w] EXCEPT !.cancel_requested = TRUE]
                ELSE rs[w]]
    /\ UNCHANGED <<CONFIG, active_processes, batch, headless, call>>

\* reset_processing_state
reset_processing_state ==
    [api EXCEPT !.is_processing = FALSE, !.processing_cancelled = FALSE]

\* update_setting(name, value)
update_setting ==
    \E name \in SettingNames, value \in BOOLEAN :
        IF name \notin DefaultKeys
        THEN UNCHANGED vars
        ELSE /\ api.nupdates < MaxUpdates
             /\ api' = [api EXCEPT !.current_settings[name] = value,
                                   !.nupdates = @ + 1]
             /\ CONFIG' = [CONFIG EXCEPT ![name] = value]
             /\ UNCHANGED <<rs, active_processes, batch, headless, call>>

\* ------------------------------------------------ single_generation_worker
\* CONFIG.update(current_settings), with the snapshot passed to the thread
W_Start(w) ==
    /\ rs[w].pc = "w_start"
    /\ CONFIG' = ConfigUpdate(rs[w].settings_snapshot)
    /\ rs' = [rs EXCEPT ![w].pc = "w_check1"]
    /\ UNCHANGED <<active_processes, api, batch, headless, call>>

\* "Process cancelled before starting"
W_CheckBeforeStart(w) ==
    LET f == rs[w] IN
    /\ f.pc = "w_check1"
    /\ rs' = [rs EXCEPT ![w] = IF api.processing_cancelled
                               THEN [f EXCEPT !.outcome = "cancelled", !.pc = "w_finally"]
                               ELSE [f EXCEPT !.pc = "w_check2"]]
    /\ UNCHANGED <<CONFIG, active_processes, api, batch, headless, call>>

\* "Process cancelled during setup", else the call of create_slideshow
W_CheckSetup(w) ==
    LET f == rs[w]
        current_settings == f.settings_snapshot
        bg_music == current_settings.use_bg_music /\ api.bg_music
        overlay_video == IF current_settings.use_overlay THEN api.overlay_video ELSE "none"
    IN
    /\ f.pc = "w_check2"
    /\ rs' = [rs EXCEPT ![w] =
                IF api.processing_cancelled
                THEN [f EXCEPT !.outcome = "cancelled", !.pc = "w_finally"]
                ELSE [f EXCEPT !.pc = "create_slideshow",
                               !.image_files = api.image_files,
                               !.video_files = api.video_files,
                               !.main_audio = api.main_audio,
                               !.bg_music = bg_music,
                               !.overlay_video = overlay_video]]
    /\ UNCHANGED <<CONFIG, active_processes, api, batch, headless, call>>

\* create_slideshow returned to the worker: "cancelled during video
\* creation", else the failure toast, else on to the end
W_AfterRender(w) ==
    LET f == rs[w] IN
    /\ f.pc = "returned" /\ f.tracked
    /\ rs' = [rs EXCEPT ![w] =
                IF api.processing_cancelled
                THEN WorkerFrame(f, "w_finally", "cancelled")
                ELSE IF f.result # "true"
                THEN WorkerFrame(f, "w_finally", "failed")
                ELSE WorkerFrame(f, "w_final_check", "none")]
    /\ UNCHANGED <<CONFIG, active_processes, api, batch, headless, call>>

\* "cancelled during finalization", else "Complete!" and the success toast
W_Finish(w) ==
    LET f == rs[w] IN
    /\ f.pc = "w_final_check"
    /\ rs' = [rs EXCEPT ![w] =
                IF api.processing_cancelled
                THEN [f EXCEPT !.outcome = "cancelled", !.pc = "w_finally"]
                ELSE [f EXCEPT !.outcome = "success", !.pc = "w_finally"]]
    /\ UNCHANGED <<CONFIG, active_processes, api, batch, headless, call>>

\* finally: reset_processing_state; the thread ends
W_Finally(w) ==
    /\ rs[w].pc = "w_finally"
    /\ api' = reset_processing_state
    /\ rs' = [rs EXCEPT ![w].pc = "done"]
    /\ UNCHANGED <<CONFIG, active_processes, batch, headless, call>>

single_generation_worker(w) ==
    \/ W_Start(w) \/ W_CheckBeforeStart(w) \/ W_CheckSetup(w)
    \/ W_AfterRender(w) \/ W_Finish(w) \/ W_Finally(w)

\* DEFAULT_CONFIG, with the durations of the model
DEFAULT_CONFIG ==
    [project_type |-> "slideshow", image_duration |-> 2, use_crossfade |-> TRUE,
     crossfade_duration |-> 1, use_overlay |-> FALSE, use_bg_music |-> TRUE,
     use_fade_in |-> TRUE, use_fade_out |-> TRUE, use_videos |-> TRUE]

\* The GUI after start-up, a slideshow project selected.
InitApi ==
    /\ CONFIG = [key \in DOMAIN DEFAULT_CONFIG \cup {"black_fade_transition"} |->
                    IF key \in DOMAIN DEFAULT_CONFIG THEN DEFAULT_CONFIG[key] ELSE FALSE]
    /\ rs = [w \in Workers |-> IdleFrame]
    /\ active_processes = {}
    /\ batch = NoBatch
    /\ headless = NoHeadless
    /\ call = NoCall
    /\ \E n \in 1..MaxImages :
          api = [NewApi EXCEPT !.current_settings = DEFAULT_CONFIG,
                               !.image_files = n, !.main_audio = 3,
                               !.bg_music = TRUE, !.overlay_video = "present",
                               !.output_path = TRUE]

NextApi ==
    \/ generate_video
    \/ cancel_processing
    \/ update_setting
    \/ \E w \in Workers :
          \/ single_generation_worker(w)
          \/ create_slideshow(w) \/ Slideshow(w) \/ run_ffmpeg_exit(w)

SpecApi == InitApi /\ [][NextApi]_vars

\* ====================================================== batch processing
\* The thread of the batch loop, and the frame of the creator call it makes.
BatchThread == 1

\* What a project folder can hold (find_media_files / scan_project_media):
\* complete (one or two images), no media, no audio, videos only.
ProjectKinds ==
    {[images |-> 1, videos |-> <<>>, main_audio |-> 3],
     [images |-> 2, videos |-> <<>>, main_audio |-> 3],
     [images |-> 0, videos |-> <<>>, main_audio |-> 3],
     [images |-> 1, videos |-> <<>>, main_audio |-> 0],
     [images |-> 0, videos |-> <<2>>, main_audio |-> 3]}

\* the frame of creator.create_slideshow(...) called by a batch loop
CreatorCall(images, videos, main_audio, bg_music, overlay_video, tracked) ==
    [IdleFrame EXCEPT !.pc = "create_slideshow", !.tracked = tracked,
                      !.image_files = images, !.video_files = videos,
                      !.main_audio = main_audio, !.bg_music = bg_music,
                      !.overlay_video = overlay_video]

\* ------------------------------------- VideoStoveAPI.batch_generation_worker
\* "Batch process cancelled before starting", else CONFIG.update(snapshot);
\* the captioner stays None (captions_enabled is False in DEFAULT_CONFIG)
B_Start ==
    /\ batch.runner = "gui" /\ batch.pc = "b_start"
    /\ IF api.processing_cancelled
       THEN /\ batch' = [batch EXCEPT !.pc = "b_finally"]
            /\ UNCHANGED CONFIG
       ELSE /\ CONFIG' = ConfigUpdate(batch.current_settings)
            /\ batch' = [batch EXCEPT !.pc = "b_loop", !.successful = 0, !.failed = 0]
    /\ UNCHANGED <<rs, active_processes, api, headless, call>>

\* the head of the for loop and find_media_files: cancelled -> break;
\* missing required files -> failed += 1; continue
B_Loop ==
    /\ batch.runner = "gui" /\ batch.pc = "b_loop"
    /\ IF batch.i = Len(batch.found_projects) \/ api.processing_cancelled
       THEN batch' = [batch EXCEPT !.pc = "b_results"]
       ELSE LET project == batch.found_projects[batch.i + 1] IN
            IF (project.images = 0 /\ project.videos = <<>>) \/ project.main_audio = 0
            THEN batch' = [batch EXCEPT !.i = @ + 1, !.failed = @ + 1]
            ELSE batch' = [batch EXCEPT !.i = @ + 1, !.pc = "b_check"]
    /\ UNCHANGED <<CONFIG, rs, active_processes, api, headless, call>>

\* "cancelled during <project>" -> break; else the call of create_slideshow
B_Check ==
    LET project == batch.found_projects[batch.i]
        current_settings == batch.current_settings
        bg_music_final == current_settings.use_bg_music /\ api.bg_music
        overlay_final == IF current_settings.use_overlay THEN api.overlay_video ELSE "none"
    IN
    /\ batch.runner = "gui" /\ batch.pc = "b_check"
    /\ IF api.processing_cancelled
       THEN /\ batch' = [batch EXCEPT !.pc = "b_results"]
            /\ UNCHANGED rs
       ELSE /\ batch' = [batch EXCEPT !.pc = "b_render"]
            /\ rs' = [rs EXCEPT ![BatchThread] =
                        CreatorCall(project.images, project.videos, project.main_audio,
                                    bg_music_final, overlay_final, TRUE)]
    /\ UNCHANGED <<CONFIG, active_processes, api, headless, call>>

\* variant: a failed render is not counted
B_AfterRender_Uncounted ==
    LET success == rs[BatchThread].result = "true" IN
    /\ batch.runner = "gui" /\ batch.pc = "b_render"
    /\ rs[BatchThread].pc = "returned"
    /\ rs' = [rs EXCEPT ![BatchThread] = IdleFrame]
    /\ batch' = IF ~success
                THEN [batch EXCEPT !.pc = "b_loop"]
                ELSE IF api.processing_cancelled
                THEN [batch EXCEPT !.pc = "b_results"]
                ELSE [batch EXCEPT !.successful = @ + 1, !.pc = "b_loop"]
    /\ UNCHANGED <<CONFIG, active_processes, api, headless, call>>

\* create_slideshow returned: not success -> failed += 1; continue; the
\* output is there when it returned True (it read the file's size);
\* "cancelled before captioning" -> break; else successful += 1
B_AfterRender ==
    LET success == rs[BatchThread].result = "true" IN
    /\ batch.runner = "gui" /\ batch.pc = "b_render"
    /\ rs[BatchThread].pc = "returned"
    /\ rs' = [rs EXCEPT ![BatchThread] = IdleFrame]
    /\ batch' = IF ~success
                THEN [batch EXCEPT !.failed = @ + 1, !.pc = "b_loop"]
                ELSE IF api.processing_cancelled
                THEN [batch EXCEPT !.pc = "b_results"]
                ELSE [batch EXCEPT !.successful = @ + 1, !.pc = "b_loop"]
    /\ UNCHANGED <<CONFIG, active_processes, api, headless, call>>

\* Final results: the toast unless cancelled
B_Results ==
    /\ batch.runner = "gui" /\ batch.pc = "b_results"
    /\ batch' = [batch EXCEPT
                    !.pc = "b_finally",
                    !.toast = IF api.processing_cancelled THEN @
                              ELSE IF batch.successful > 0 THEN "success" ELSE "warning"]
    /\ UNCHANGED <<CONFIG, rs, active_processes, api, headless, call>>

\* finally: reset_processing_state; the thread ends
B_Finally ==
    /\ batch.runner = "gui" /\ batch.pc = "b_finally"
    /\ api' = reset_processing_state
    /\ batch' = [batch EXCEPT !.pc = "done"]
    /\ UNCHANGED <<CONFIG, rs, active_processes, headless, call>>

batch_generation_worker ==
    \/ B_Start \/ B_Loop \/ B_Check \/ B_AfterRender \/ B_Results \/ B_Finally

\* the user's cancel button while the batch thread lives
B_Cancel ==
    /\ batch.runner = "gui" /\ batch.pc # "done"
    /\ ~api.processing_cancelled
    /\ cancel_processing

\* ------------------------------------------------- cmd_wizard, Step 8
\* the head of `for i, project_info in enumerate(projects_plan, 1)`
WZ_Loop ==
    /\ batch.runner = "cli" /\ batch.pc = "wz_loop"
    /\ batch' = IF batch.i = Len(batch.found_projects)
                THEN [batch EXCEPT !.pc = "wz_summary"]
                ELSE [batch EXCEPT !.i = @ + 1, !.pc = "render_project"]
    /\ UNCHANGED <<CONFIG, rs, active_processes, api, headless, call>>

\* require_gpu_or_exit: ALLOW_CPU=1 returns; no GPU is sys.exit(3)
require_gpu_or_exit == IF batch.ALLOW_CPU \/ batch.gpu THEN "return" ELSE "sys.exit"

\* render_project up to the call of create_slideshow. SystemExit is not an
\* Exception: neither `except Exception` of cmd_wizard catches it, and the
\* process ends with code 3.
render_project ==
    LET project == batch.found_projects[batch.i]
        m == prepare_media_for_mode(project.images, project.videos, batch.mode)
    IN
    /\ batch.runner = "cli" /\ batch.pc = "render_project"
    /\ IF require_gpu_or_exit = "sys.exit"
       THEN /\ batch' = [batch EXCEPT !.pc = "exit", !.exit_code = 3]
            /\ UNCHANGED <<CONFIG, rs, call>>
       ELSE /\ CONFIG' = [ConfigUpdate(batch.preset_config) EXCEPT
                             !.project_type = batch.mode]
            /\ rs' = [rs EXCEPT ![BatchThread] =
                        CreatorCall(m.images, m.videos, project.main_audio,
                                    batch.bgm, batch.overlay, FALSE)]
            /\ batch' = [batch EXCEPT !.pc = "wz_render"]
    /\ UNCHANGED <<active_processes, api, headless, call>>

\* render_project returned: one entry of render_results per project
WZ_AfterRender ==
    LET success == rs[BatchThread].result = "true" IN
    /\ batch.runner = "cli" /\ batch.pc = "wz_render"
    /\ rs[BatchThread].pc = "returned"
    /\ rs' = [rs EXCEPT ![BatchThread] = IdleFrame]
    /\ batch' = [batch EXCEPT !.render_results = Append(@, success),
                              !.pc = "wz_loop"]
    /\ UNCHANGED <<CONFIG, active_processes, api, headless, call>>

\* Step 10: the exit code from the counts
WZ_Summary ==
    LET successful_count ==
            Cardinality({j \in 1..Len(batch.render_results) : batch.render_results[j]})
        failed_count == Len(batch.render_results) - successful_count
    IN
    /\ batch.runner = "cli" /\ batch.pc = "wz_summary"
    /\ batch' = [batch EXCEPT
                    !.pc = "exit",
                    !.exit_code = IF failed_count = 0 THEN 0
                                  ELSE IF successful_count > 0 THEN 2 ELSE 1]
    /\ UNCHANGED <<CONFIG, rs, active_processes, api, headless, call>>

cmd_wizard == WZ_Loop \/ render_project \/ WZ_AfterRender \/ WZ_Summary

\* A batch about to run: the GUI's batch thread just started by
\* generate_video, or the wizard at the start of its render loop.
InitBatch ==
    /\ CONFIG = [key \in DOMAIN DEFAULT_CONFIG \cup {"black_fade_transition"} |->
                    IF key \in DOMAIN DEFAULT_CONFIG THEN DEFAULT_CONFIG[key] ELSE FALSE]
    /\ rs = [w \in Workers |-> IdleFrame]
    /\ active_processes = {}
    /\ headless = NoHeadless
    /\ call = NoCall
    /\ \E runner \in {"gui", "cli"}, ps \in SeqsUpTo(ProjectKinds, MaxProjects),
          allow \in BOOLEAN, gpu \in BOOLEAN, use_overlay \in BOOLEAN :
          LET settings == [DEFAULT_CONFIG EXCEPT !.use_overlay = use_overlay] IN
          /\ ps # <<>>
          /\ IF runner = "gui"
             THEN /\ ~allow /\ gpu
                  /\ api = [NewApi EXCEPT !.is_processing = TRUE,
                                          !.current_settings = settings,
                                          !.bg_music = TRUE,
                                          !.overlay_video = "present",
                                          !.output_path = TRUE]
                  /\ batch = [NoBatch EXCEPT !.runner = "gui", !.pc = "b_start",
                                             !.found_projects = ps,
                                             !.current_settings = settings]
             ELSE /\ api = NewApi
                  /\ batch = [NoBatch EXCEPT !.runner = "cli", !.pc = "wz_loop",
                                             !.found_projects = ps,
                                             !.preset_config = settings,
                                             !.mode = "slideshow",
                                             !.bgm = TRUE,
                                             !.overlay = IF use_overlay THEN "present"
                                                         ELSE "none",
                                             !.ALLOW_CPU = allow, !.gpu = gpu]

NextBatch ==
    \/ batch_generation_worker
    \/ B_Cancel
    \/ cmd_wizard
    \/ create_slideshow(BatchThread) \/ Slideshow(BatchThread)
    \/ run_ffmpeg_exit(BatchThread)

SpecBatch == InitBatch /\ [][NextBatch]_vars

\* ============================ headless bridge (render_with_run_main)
\* build_visual_chain's silent track when the directory holds no image
SilentDuration == 60

\* build_visual_chain up to the call of create_slideshow: ValueError when
\* the directory holds no image and no video; the overlay only when
\* use_overlay; a silent track in gettempdir() when there is no audio (the
\* result of its ffmpeg run is not looked at; the model follows the run
\* that wrote the file)
build_visual_chain ==
    LET in == headless.inputs
        final_overlay_video == IF CONFIG.use_overlay THEN in.overlay_video ELSE "none"
        duration == IF in.images # 0 THEN in.images * CONFIG.image_duration
                    ELSE SilentDuration
    IN
    /\ headless.pc = "build_visual_chain"
    /\ IF in.images = 0 /\ in.videos = <<>>
       THEN /\ headless' = [headless EXCEPT !.pc = "raised"]
            /\ UNCHANGED rs
       ELSE /\ headless' = [headless EXCEPT
                               !.pc = "create_slideshow",
                               !.tempdir = IF in.main_audio = 0
                                           THEN @ \cup {"silent.mp3"} ELSE @]
            /\ rs' = [rs EXCEPT ![BatchThread] =
                        CreatorCall(in.images, in.videos,
                                    IF in.main_audio = 0 THEN duration ELSE in.main_audio,
                                    FALSE, final_overlay_video, FALSE)]
    /\ UNCHANGED <<CONFIG, active_processes, api, batch, call>>

\* create_slideshow returned to build_visual_chain: temp_video is the
\* output file of the render; RuntimeError when it failed
HL_AfterVisual ==
    LET f == rs[BatchThread]
        success == f.result = "true"
        exists == f.output # NoFile
    IN
    /\ headless.pc = "create_slideshow" /\ f.pc = "returned"
    /\ headless' = [headless EXCEPT
                       !.pc = IF ~success \/ ~exists THEN "raised" ELSE "mix_and_export",
                       !.tmp_visual = f.output,
                       !.tempdir = IF exists THEN @ \cup {"visual_chain.mp4"} ELSE @]
    /\ rs' = [rs EXCEPT ![BatchThread] = IdleFrame]
    /\ UNCHANGED <<CONFIG, active_processes, api, batch, call>>

\* mix_and_export: video stream copy, -shortest; RuntimeError on a non-zero
\* return code. Then render_with_run_main returns final_path.
mix_and_export ==
    LET video_in == headless.tmp_visual
        has_main_audio == headless.main_audio_file # 0
        out == [video_in EXCEPT !.dur = IF has_main_audio
                                        THEN Min(@, headless.main_audio_file) ELSE @]
    IN
    /\ headless.pc = "mix_and_export"
    /\ \E returncode \in {0, 1} :
          headless' = IF returncode # 0
                      THEN [headless EXCEPT !.pc = "raised"]
                      ELSE [headless EXCEPT !.pc = "returned", !.final_path = out]
    /\ UNCHANGED <<CONFIG, rs, active_processes, api, batch, call>>

render_with_run_main == build_visual_chain \/ HL_AfterVisual \/ mix_and_export

\* render_with_run_main called on a scanned input directory; project_type
\* is DEFAULT_CONFIG's "montage" (map_preset_to_config does not set it).
InitHeadless ==
    /\ CONFIG \in ConfigSpace
    /\ CONFIG.project_type = "montage"
    /\ rs = [w \in Workers |-> IdleFrame]
    /\ active_processes = {}
    /\ api = NewApi
    /\ batch = NoBatch
    /\ call = NoCall
    /\ \E n \in 0..MaxImages, vs \in SeqsUpTo(VideoDurations, MaxVideos),
          a \in AudioDurations \cup {0}, ov \in {"none", "present"} :
          /\ CONFIG.use_overlay = (ov # "none")
          /\ headless = [NoHeadless EXCEPT
                            !.pc = "build_visual_chain",
                            !.inputs = [images |-> n, videos |-> vs,
                                        main_audio |-> a, overlay_video |-> ov],
                            !.main_audio_file = a]

NextHeadless ==
    \/ render_with_run_main
    \/ create_slideshow(BatchThread) \/ Montage(BatchThread)
    \/ run_ffmpeg_exit(BatchThread)

SpecHeadless == InitHeadless /\ [][NextHeadless]_vars

\* ======================== apply_crossfade_transitions as a function
\* the call: no clips -> False; one clip -> copied to output_path; else the
\* first of the N-1 crossfade steps
XF_Call(w) ==
    LET f == rs[w] IN
    /\ f.pc = "apply_crossfade_transitions"
    /\ UNCHANGED CONFIG
    /\ Commit(w,
         IF f.clips = <<>>
         THEN [f EXCEPT !.pc = "returned", !.result = "false"]
         ELSE IF Len(f.clips) = 1
         THEN [f EXCEPT !.pc = "returned", !.result = "true",
                        !.output = f.wd[f.clips[1]]]
         ELSE LET f1 == [f EXCEPT !.cur = f.clips[1], !.i = 1]
              IN  Call(f1, CrossfadeCmd(f1, 1), "xf_step"))

\* one step returned: failure -> False; more clips -> the next step; else
\* the final copy to output_path. temp_dir is gone on every return.
XF_AfterStep(w) ==
    LET f == rs[w]
        f1 == [f EXCEPT !.cur = CrossfadeName(f.i), !.i = @ + 1]
        temps == {CrossfadeName(j) : j \in 1..Len(f.clips)}
    IN
    /\ f.pc = "xf_step"
    /\ UNCHANGED CONFIG
    /\ Commit(w,
         IF ~f.rc
         THEN [f EXCEPT !.pc = "returned", !.result = "false", !.wd = Remove(@, temps)]
         ELSE IF f1.i <= Len(f.clips) - 1
              THEN Call(f1, CrossfadeCmd(f1, f1.i), "xf_step")
         ELSE [f1 EXCEPT !.pc = "returned", !.result = "true",
                         !.output = f1.wd[f1.cur], !.wd = Remove(@, temps)])

apply_crossfade_transitions(w) == XF_Call(w) \/ XF_AfterStep(w)

\* apply_crossfade_transitions(clips, output_path) called on any list of
\* clips (durations 1..MaxClipDuration) with any configured duration
InitCrossfade ==
    /\ \E d \in 0..MaxCrossfade :
          CONFIG = [key \in DOMAIN DEFAULT_CONFIG \cup {"black_fade_transition"} |->
                       IF key = "crossfade_duration" THEN d
                       ELSE IF key \in DOMAIN DEFAULT_CONFIG THEN DEFAULT_CONFIG[key]
                       ELSE FALSE]
    /\ \E durs \in SeqsUpTo(1..MaxClipDuration, MaxClips) :
          rs = [w \in Workers |->
                  IF w = 1
                  THEN [IdleFrame EXCEPT
                           !.pc = "apply_crossfade_transitions",
                           !.clips = [j \in 1..Len(durs) |-> ImageName(j)],
                           !.wd = [n \in {ImageName(j) : j \in 1..Len(durs)} |->
                                      File(durs[n[2]])]]
                  ELSE IdleFrame]
    /\ active_processes = {}
    /\ api = NewApi
    /\ batch = NoBatch
    /\ headless = NoHeadless
    /\ call = NoCall

NextCrossfade ==
    \E w \in Workers : apply_crossfade_transitions(w) \/ run_ffmpeg_exit(w)

SpecCrossfade == InitCrossfade /\ [][NextCrossfade]_vars

\* =============================================================== claims
\* the call of run_ffmpeg has just returned to its caller
JustReturned(f) == f.cmd # NoCmd /\ f.pc = f.k
LoopLabels == {"ss_loop", "mo_loop", "mo_loop2"}

\* C1: every render that returns success has an output as long as the main
\* audio, and the video handed to the final command covers the audio.
C1_OutputDurationEqualsAudio ==
    \A w \in Workers :
        rs[w].result = "true" =>
            /\ rs[w].output.dur = rs[w].main_audio
            /\ rs[w].cmd.srcs[1].dur >= rs[w].main_audio

\* C2 as amended: a cycle C loop-fitted to T > C is cut to exactly T; the
\* montage asks for ceil(T / C) - 1 repetitions, the slideshow for an
\* endless loop (-1).
C2_LoopCountAmended ==
    \A w \in Workers :
        LET f == rs[w]
            T == f.cmd.t
            C == f.cmd.srcs[1].dur
        IN  f.cmd.op = "loop" /\ T > C =>
                /\ f.cmd.loop = IF f.cmd.out = <<"temp_looped.mp4", 0>> THEN -1
                                ELSE Ceil(T, C) - 1
                /\ (f.pc \in LoopLabels /\ f.rc => f.wd[f.cmd.out].dur = T)

\* C2: a cycle C loop-fitted to T > C is repeated exactly ceil(T / C) - 1
\* additional times and cut to exactly T, in the slideshow and the montage.
C2_LoopCountCeil ==
    \A w \in Workers :
        LET f == rs[w]
            T == f.cmd.t
            C == f.cmd.srcs[1].dur
        IN  f.cmd.op = "loop" /\ T > C =>
                /\ f.cmd.loop = Ceil(T, C) - 1
                /\ (f.pc \in LoopLabels /\ f.rc => f.wd[f.cmd.out].dur = T)

C2_Witness ==
    \E w \in Workers :
        LET f == rs[w] IN
        /\ f.cmd.op = "loop" /\ f.cmd.t > f.cmd.srcs[1].dur
        /\ f.pc = "mo_loop2" /\ f.rc
        /\ f.cmd.loop >= 1

\* C3 as amended: with T <= C loop-fitting only trims: the result is exactly
\* T long; the montage asks for zero repetitions, the slideshow still passes
\* the endless loop (-1), which -t cuts before any repetition.
C3_TrimOnlyAmended ==
    \A w \in Workers :
        LET f == rs[w]
            T == f.cmd.t
            C == f.cmd.srcs[1].dur
        IN  f.cmd.op = "loop" /\ T <= C =>
                /\ f.cmd.loop = IF f.cmd.out = <<"temp_looped.mp4", 0>> THEN -1 ELSE 0
                /\ (f.pc \in LoopLabels /\ f.rc => f.wd[f.cmd.out].dur = T)

\* C3: with T <= C the engine is asked for a loop count of zero and the
\* result is exactly T long.
C3_TrimOnlyZeroLoops ==
    \A w \in Workers :
        LET f == rs[w]
            T == f.cmd.t
            C == f.cmd.srcs[1].dur
        IN  f.cmd.op = "loop" /\ T <= C =>
                /\ f.cmd.loop = 0
                /\ (f.pc \in LoopLabels /\ f.rc => f.wd[f.cmd.out].dur = T)

C3_Witness ==
    \E w \in Workers :
        LET f == rs[w] IN
        /\ f.cmd.op = "loop" /\ f.cmd.t < f.cmd.srcs[1].dur
        /\ f.pc = "mo_loop2" /\ f.rc
        /\ f.wd[f.cmd.out].dur = f.cmd.t

\* the stages C4 names as terminal
FatalOps == {"audio", "video", "motion", "xfade", "loop", "trim", "fade", "mix", "mux"}

\* C4: when a stage other than a stream-copy concatenation or an overlay
\* fails, the next step of the render is to return failure.
C4_StageFailureTerminal ==
    [][\A w \in Workers :
          (JustReturned(rs[w]) /\ ~rs[w].rc /\ rs[w].cmd.op \in FatalOps
             /\ rs'[w] # rs[w])
          => rs'[w].pc = "returned" /\ rs'[w].result = "false"]_vars

\* C5: a failed stream-copy concatenation is always followed by a
\* re-encoding join of the same files.
C5_ConcatFallbackAlways ==
    [][\A w \in Workers :
          (JustReturned(rs[w]) /\ ~rs[w].rc /\ rs[w].cmd.op = "concat_copy"
             /\ rs'[w] # rs[w])
          => /\ rs'[w].pc = "run_ffmpeg"
             /\ rs'[w].cmd.op = "concat_reencode"
             /\ rs'[w].cmd.srcs = rs[w].cmd.srcs]_vars


\* the stages that call apply_overlay
OverlayStages == {"ss_overlay", "vo_overlay", "mo_overlay_intro", "mo_overlay_cycle"}

\* the base clip of the overlay output n written at stage f.pc
OverlayBase(f, n) ==
    IF f.pc = "mo_overlay_intro" THEN f.intro_clips[n[2] + 1]
    ELSE IF f.pc = "mo_overlay_cycle" THEN CycleName
    ELSE f.cur

\* C6: when the overlay file is missing or the engine fails, apply_overlay
\* leaves an unmodified copy of the base clip at its output path and the
\* render goes on to its next stage.
C6_OverlayFailurePassThrough ==
    [][\A w \in Workers :
          LET f == rs[w]
              g == rs'[w]
          IN  /\ (JustReturned(f) /\ f.cmd.op = "overlay" /\ ~f.rc /\ g # f)
                 => /\ g.pc # "returned"
                    /\ f.cmd.out \in DOMAIN g.wd
                    /\ g.wd[f.cmd.out] = f.cmd.srcs[1]
              /\ (f.pc \in OverlayStages /\ CONFIG.use_overlay
                    /\ f.overlay_video = "missing" /\ g # f)
                 => /\ g.pc # "returned"
                    /\ \A n \in DOMAIN g.wd \ DOMAIN f.wd :
                          g.wd[n] = f.wd[OverlayBase(f, n)]]_vars

\* an overlay whose engine call failed: the copy of the base is in place
\* and the render is at its next stage
C6_Witness ==
    \E w \in Workers :
        LET f == rs[w] IN
        /\ f.cmd.op = "overlay" /\ ~f.rc
        /\ f.pc \notin {f.k, "run_ffmpeg", "returned"}
        /\ f.cmd.out \in DOMAIN f.wd
        /\ f.wd[f.cmd.out] = f.cmd.srcs[1]


\* C7: once cancel_processing has set the flag, the render that was running
\* issues no further engine invocation.
C7_NoStageAfterCancel ==
    [][\A w \in Workers :
          (api.processing_cancelled /\ rs[w].cancel_requested
             /\ rs[w].pc # "run_ffmpeg")
          => rs'[w].pc # "run_ffmpeg"]_vars

\* C8: a process that was in the registry when cancellation was requested
\* leaves the registry only by being killed.
C8_CancelKillsInFlight ==
    [][\A w \in Workers :
          LET h == <<w, rs[w].nproc>> IN
          (h \in api.at_cancel /\ h \notin active_processes')
          => rs'[w].ended = "killed"]_vars

\* C9: a render for which cancellation was requested reports neither
\* success nor failure.
C9_CancelledNeverSuccessOrFailed ==
    \A w \in Workers :
        rs[w].cancel_requested => rs[w].outcome \notin {"success", "failed"}

\* where a thread is in create_slideshow_original: the place a pending
\* run_ffmpeg returns to, else its own place
Pos(f) == IF f.pc = "run_ffmpeg" THEN f.k ELSE f.pc

\* the CONFIG keys (among those the GUI changes here) that the stages from
\* place p on still read
LaterReads(p) ==
    IF p \in {"create_slideshow", "ss_start", "ss_audio", "ss_clip"}
    THEN {"use_crossfade", "use_overlay", "use_fade_out"}
    ELSE IF p \in {"ss_xfade", "ss_concat", "ss_concat_fb", "ss_overlay"}
    THEN {"use_overlay", "use_fade_out"}
    ELSE IF p \in {"ss_overlay_done", "ss_loop"}
    THEN {"use_fade_out"}
    ELSE {}

\* C10: every CONFIG value a later stage of a running render reads is the
\* value of the snapshot taken when the render started.
C10_ConfigIsSnapshot ==
    \A w \in Workers :
        rs[w].tracked =>
            \A key \in LaterReads(Pos(rs[w])) :
                CONFIG[key] = rs[w].settings_snapshot[key]

\* the batch loop is over: the GUI worker is past its for loop, the wizard's
\* process is past its loop or has exited
BatchLoopOver == batch.pc \in {"b_results", "b_finally", "wz_summary", "exit"}

\* C11: a fatal error in one project never aborts the batch: when the loop
\* of a batch that had started is over and the user did not cancel, the body
\* of the loop has started for every project of the list.
C11_BatchAttemptsEveryProject ==
    (BatchLoopOver /\ ~api.processing_cancelled)
        => batch.i = Len(batch.found_projects)

\* C12: when a render returns, on success and on every failure path, the
\* intermediate files it created are gone: the working directory of a
\* returned pipeline is empty, and the headless bridge, returned or raised,
\* has left nothing in the temporary directory.
C12_TransientStorageCleaned ==
    /\ \A w \in Workers : rs[w].pc = "returned" => rs[w].wd = EmptyDir
    /\ headless.pc \in {"returned", "raised"} => headless.tempdir = {}

\* the durations of the clips a crossfade call was given, their sum, and the
\* duration the formula sum - (N-1)*d gives for the first k of them
ClipDurs(f) == Durs(FilesOf(f.wd, f.clips))
FormulaDuration(f, k) ==
    SumSeq(SubSeq(ClipDurs(f), 1, k)) - (k - 1) * CONFIG.crossfade_duration
CrossfadeSucceeded(f) ==
    f.pc = "returned" /\ f.result = "true" /\ f.k = "xf_step" /\ Len(f.clips) > 1
\* d never exceeds the running result it is applied to
NeverClamped(f) ==
    \A k \in 1..(Len(f.clips) - 1) : CONFIG.crossfade_duration <= FormulaDuration(f, k)

\* C13 (as stated): a successful crossfade of N > 1 clips yields the
\* duration sum - (N-1)*d, for every d >= 0.
C13_CrossfadeDuration ==
    \A w \in Workers :
        CrossfadeSucceeded(rs[w]) =>
            rs[w].output.dur = FormulaDuration(rs[w], Len(rs[w].clips))

\* C13 (amended): the output has the duration sum - (N-1)*d when d never
\* exceeds the running result's duration at a step; when it does, that
\* step's offset is clamped to 0 and the output is longer than the formula.
C13_CrossfadeDurationAmended ==
    \A w \in Workers :
        CrossfadeSucceeded(rs[w]) =>
            IF NeverClamped(rs[w])
            THEN rs[w].output.dur = FormulaDuration(rs[w], Len(rs[w].clips))
            ELSE rs[w].output.dur > FormulaDuration(rs[w], Len(rs[w].clips))

\* three clips joined with a positive crossfade, none clamped
C13_Witness ==
    \E w \in Workers :
        /\ CrossfadeSucceeded(rs[w]) /\ Len(rs[w].clips) = 3
        /\ CONFIG.crossfade_duration > 0 /\ NeverClamped(rs[w])
        /\ rs[w].output.dur = FormulaDuration(rs[w], 3)

\* the source durations of the intro videos whose processed clip is in
\* intro_clips (intro_video_<i>.mp4 comes from video_files[i])
IncludedIntroDuration(f) ==
    SumSeq([j \in 1..Len(f.intro_clips) |-> f.video_files[f.intro_clips[j][2] + 1]])

\* C14: when the montage computes the time remaining for images, it is the
\* audio duration minus the durations of the intro videos whose processed
\* clip was included in the intro segment.
C14_RemainingTimeCountsIncludedIntros ==
    [][\A w \in Workers :
        (rs[w].pc = "mo_images" /\ rs'[w] # rs[w]) =>
            rs'[w].remaining_time =
                rs'[w].audio_duration - IncludedIntroDuration(rs'[w])]_vars

\* the montage took its standard case and has its master video: the
\* slideshow master exists beside it
StandardCaseDone(f) ==
    f.pc = "mo_final" /\ SlideshowMasterName \in DOMAIN f.wd

\* C15: in the montage standard case the slideshow segment is fitted to
\* exactly the audio duration minus the intro segment's duration, and the
\* master video (intro segment, then slideshow segment) is as long as the
\* audio.
C15_StandardCaseFillsAudio ==
    \A w \in Workers :
        LET f == rs[w] IN
        StandardCaseDone(f) =>
            /\ f.wd[SlideshowMasterName].dur =
                   f.audio_duration - IncludedIntroDuration(f)
            /\ f.wd[MasterName].dur = f.audio_duration

\* a montage call whose intro videos are together at least as long as the
\* audio
IntroCoversAudio(f) ==
    /\ CONFIG.project_type = "montage"
    /\ f.pc \notin {"idle", "create_slideshow"}
    /\ f.main_audio > 0 /\ SumSeq(f.video_files) >= f.main_audio
\* the source durations of the included intro videos, in the clips' order
IncludedIntroDurs(f) ==
    [j \in 1..Len(f.intro_clips) |-> f.video_files[f.intro_clips[j][2] + 1]]

IsSlideshowVisualOp(f, c) ==
    CASE c.op = "motion" ->
            \E i \in 0..(f.image_files - 1) : c = create_motion_clip(f, i, FALSE, FALSE)
      [] c.op = "overlay" -> c.srcs = <<f.wd[CycleName]>>
      [] c.op = "loop" ->
            /\ c.t = f.audio_duration
            /\ c.loop = -1 \/ (c.loop + 1) * c.srcs[1].dur >= c.t
      [] c.op = "fade" ->
            /\ c.fi = CONFIG.use_fade_in /\ c.fo = CONFIG.use_fade_out
            /\ c.srcs[1].dur = f.audio_duration
      [] OTHER -> TRUE

\* thread w starts an engine run in this step
IssuesCommand(w) == rs'[w].pc = "run_ffmpeg" /\ rs'[w].nproc # rs[w].nproc

\* C17: with no intro videos every visual operation of the montage is one
\* the slideshow pipeline performs for the same images, configuration and
\* audio: motion clips without per-clip fades, overlay on the cycle, loop-fit
\* to the audio duration, the fades once on the full-length result.
C17_MontageWithoutIntrosIsSlideshow ==
    [][\A w \in Workers :
        (/\ CONFIG.project_type = "montage"
         /\ rs[w].video_files = <<>>
         /\ IssuesCommand(w))
            => IsSlideshowVisualOp(rs'[w], rs'[w].cmd)]_vars

\* the number of times the whole sequence is to be repeated the least n
\* with n * V >= A when V < A, else 1
VideosOnlyRepetitions(f) ==
    LET V == SumSeq(f.video_files)
        A == f.main_audio
    IN  IF V < A THEN CHOOSE n \in 1..A : n * V >= A /\ (n - 1) * V < A ELSE 1

\* the frame is at, or past, the concatenation of create_videos_only
VO_Concatenating(f) ==
    /\ f.k = "vo_concat" /\ f.pc \in {"run_ffmpeg", "vo_concat"}
    /\ f.cmd.op = "concat_copy"

\* the frame is at, or past, the final command of create_videos_only
VO_Finishing(f) ==
    /\ f.k = "vo_mux" /\ f.pc \in {"run_ffmpeg", "vo_mux"}
    /\ f.cmd.op = "mux"

\* C18: in videos-only mode the concatenation lists the ordered sequence of
\* the videos as a whole, ceil(A/V) times when the videos are shorter than
\* the audio and once otherwise, and the result is cut to the audio duration.
C18_VideosOnlyLooping ==
    \A w \in Workers :
        LET f == rs[w]
            n == Len(f.video_files)
            reps == VideosOnlyRepetitions(f)
        IN  /\ VO_Concatenating(f) =>
                /\ Len(f.cmd.srcs) = reps * n
                /\ \A j \in 1..(reps * n) :
                      f.cmd.srcs[j].dur = f.video_files[((j - 1) % n) + 1]
            /\ VO_Finishing(f) =>
                /\ f.cmd.srcs[1].dur >= f.main_audio
                /\ EngineOutput(f.cmd).dur = f.main_audio

\* two videos shorter than the audio have been listed twice and concatenated
C18_Witness ==
    \E w \in Workers :
        /\ VO_Concatenating(rs[w]) /\ rs[w].pc = "vo_concat" /\ rs[w].rc
        /\ Len(rs[w].video_files) = 2
        /\ VideosOnlyRepetitions(rs[w]) = 2
        /\ Len(rs[w].cmd.srcs) = 4

\* C19: in every mode the final assembly stream-copies the video track (it
\* is never re-encoded or filtered there) and cuts the output to the
\* duration of the main audio.
C19_FinalMuxStreamCopiesVideo ==
    \A w \in Workers :
        rs[w].cmd.op = "mux" =>
            /\ rs[w].cmd.vcopy
            /\ rs[w].cmd.t = rs[w].audio_duration
            /\ rs[w].audio_duration = rs[w].main_audio

\* the stage of create_slideshow_original a command belongs to: 1 audio,
\* 2 cycle building, 3 cycle assembly, 4 overlay, 5 loop-fit, 6 fades,
\* 7 audio mix, 8 final mux
SlideshowStage(c) ==
    CASE c.op = "audio" -> 1
      [] c.op = "motion" -> 2
      [] c.op \in {"xfade", "concat_copy", "concat_reencode"} -> 3
      [] c.op = "overlay" -> 4
      [] c.op = "loop" -> 5
      [] c.op = "fade" -> 6
      [] c.op = "mix" -> 7
      [] c.op = "mux" -> 8
      [] OTHER -> 0

\* the stages that may follow stage a: the next one, the optional ones
\* (overlay, fades, mix) skipped, and a further step of the cycle loops
SlideshowNextStages(a) ==
    CASE a = 1 -> {2}
      [] a = 2 -> {2, 3}
      [] a = 3 -> {3, 4, 5}
      [] a = 4 -> {5}
      [] a = 5 -> {6, 7, 8}
      [] a = 6 -> {7, 8}
      [] a = 7 -> {8}
      [] OTHER -> {}

\* the positions of a running create_slideshow_original
SlideshowPcs ==
    {"ss_start", "ss_audio", "ss_clip", "ss_xfade", "ss_concat", "ss_concat_fb",
     "ss_overlay", "ss_overlay_done", "ss_loop", "ss_fade", "ss_final", "ss_mix",
     "ss_mux"}

\* C20: the stages of the slideshow pipeline run in the fixed order audio,
\* cycle building (one motion clip per image, in order), cycle assembly,
\* optional overlay, loop-fit, fades, audio mix, final mux: a stage starts
\* only when the run before it has returned, never runs a second time and
\* never follows a later stage (the assembly takes one step per crossfade,
\* or retries a failed stream-copy concatenation by re-encoding).
C20_SlideshowStageOrder ==
    [][\A w \in Workers :
        (rs'[w].k \in SlideshowPcs /\ IssuesCommand(w)) =>
            LET a == SlideshowStage(rs[w].cmd)
                b == SlideshowStage(rs'[w].cmd)
            IN  /\ rs[w].pc \in SlideshowPcs
                /\ rs[w].pc = "ss_start" => b = 1
                /\ rs[w].pc # "ss_start" => b \in SlideshowNextStages(a)
                /\ b = 2 =>
                    /\ rs'[w].i = Len(rs'[w].clips)
                    /\ rs'[w].cmd = create_motion_clip(rs'[w], rs'[w].i, FALSE, FALSE)
                    /\ a = 2 => rs'[w].i = rs[w].i + 1
                /\ (a = 2 /\ b = 3) => Len(rs'[w].clips) = rs[w].image_files
                /\ (a = 3 /\ b = 3) =>
                    \/ /\ rs[w].cmd.op = "xfade" /\ rs'[w].cmd.op = "xfade"
                       /\ rs'[w].i = rs[w].i + 1
                    \/ /\ rs[w].cmd.op = "concat_copy" /\ ~rs[w].rc
                       /\ rs'[w].cmd.op = "concat_reencode"]_vars

\* a slideshow of two images went through every stage, the optional ones
\* included, and its final mux has ended
C20_Witness ==
    \E w \in Workers :
        /\ rs[w].pc = "ss_mux" /\ rs[w].rc /\ rs[w].cmd.op = "mux"
        /\ rs[w].image_files = 2
        /\ rs[w].final_audio = <<"mixed_audio.mp3", 0>>
        /\ rs[w].wd[MasterName].ov /\ rs[w].wd[MasterName].fi

\* ================================= renders with unreadable input assets
\* the input files a render is given besides images and videos
Assets == {"main_audio", "bg_music", "overlay_video"}

\* a direct call of create_slideshow in which at least one of the assets
\* passed is unreadable (corrupt, or a path that does not exist), or in
\* which the main audio file holds no audio (its duration is 0)
InitAssets ==
    /\ CONFIG \in ConfigSpace
    /\ \E n \in 0..MaxImages, vs \in SeqsUpTo(VideoDurations, MaxVideos),
          a \in AudioDurations, bg \in BOOLEAN, ov \in {"none", "present"},
          u \in SUBSET Assets, e \in BOOLEAN :
          LET m == prepare_media_for_mode(n, vs, CONFIG.project_type) IN
          /\ CONFIG.use_overlay = (ov # "none")
          /\ u # {} \/ e
          /\ e => u = {}
          /\ "bg_music" \in u => bg
          /\ "overlay_video" \in u => ov = "present"
          /\ rs = [w \in Workers |->
                  IF w = 1
                  THEN [IdleFrame EXCEPT !.pc = "create_slideshow",
                           !.image_files = m.images, !.video_files = m.videos,
                           !.main_audio = a, !.bg_music = bg, !.overlay_video = ov,
                           !.unreadable = u, !.empty_audio = e]
                  ELSE IdleFrame]
    /\ active_processes = {}
    /\ api = NewApi
    /\ batch = NoBatch
    /\ headless = NoHeadless
    /\ call = NoCall

SpecAssets == InitAssets /\ [][NextRender]_vars

\* the engine run of thread w that has just returned failed on an
\* unreadable asset of kind a
FailedOnAsset(w, a) ==
    /\ rs[w].pc = rs[w].k /\ ~rs[w].rc
    /\ a \in rs[w].cmd.reads \cap rs[w].unreadable

\* C21: an unreadable main audio is fatal to the render; an engine run that
\* fails on unreadable background music or on an unreadable overlay video
\* never makes the render return False, in any of the three modes.
C21_SecondaryAssetFailureTolerated ==
    [][\A w \in Workers :
        /\ (FailedOnAsset(w, "main_audio") /\ rs'[w] # rs[w])
              => rs'[w].result = "false"
        /\ ((FailedOnAsset(w, "bg_music") \/ FailedOnAsset(w, "overlay_video"))
                /\ ~FailedOnAsset(w, "main_audio") /\ rs'[w] # rs[w])
              => rs'[w].result # "false"]_vars

\* ===================================== pick_motion_direction as a function
\* the largest number of images of one call
MaxSequenceImages == 7

MOTION_DIRECTIONS == <<"right", "left", "down", "up">>

\* values of CONFIG["animation_style"]: the styles of the GUI, the empty
\* string and a string that names no style
AnimationStyles ==
    {"Sequential Motion", "Zoom In Only", "Zoom Out Only", "Pan Only",
     "No Animation", "Random Motion", "", "Spiral"}

\* variant: the last index is tested before the first
pick_motion_direction_LastFirst(animation_style, i, total_images) ==
    LET style == IF animation_style = "" THEN "Sequential Motion" ELSE animation_style
    IN  IF style \in {"Zoom In Only", "Zoom In"} THEN {"zoom_in"}
        ELSE IF style \in {"Zoom Out Only", "Zoom Out"} THEN {"zoom_out"}
        ELSE IF style \in {"Pan Only", "Pan"} THEN {"right"}
        ELSE IF style \in {"No Animation", "None"} THEN {"no_motion"}
        ELSE IF style \in {"Random Motion", "Random"}
             THEN Range(MOTION_DIRECTIONS) \cup {"zoom_in", "zoom_out"}
        ELSE IF i = total_images - 1 THEN {"zoom_out"}
        ELSE IF total_images <= 1 \/ i = 0 THEN {"zoom_in"}
        ELSE {MOTION_DIRECTIONS[((i - 1) % Len(MOTION_DIRECTIONS)) + 1]}

\* the values pick_motion_direction can return (one value, except for the
\* random style, which draws from six)
pick_motion_direction(animation_style, i, total_images) ==
    LET style == IF animation_style = "" THEN "Sequential Motion" ELSE animation_style
    IN  IF style \in {"Zoom In Only", "Zoom In"} THEN {"zoom_in"}
        ELSE IF style \in {"Zoom Out Only", "Zoom Out"} THEN {"zoom_out"}
        ELSE IF style \in {"Pan Only", "Pan"} THEN {"right"}
        ELSE IF style \in {"No Animation", "None"} THEN {"no_motion"}
        ELSE IF style \in {"Random Motion", "Random"}
             THEN Range(MOTION_DIRECTIONS) \cup {"zoom_in", "zoom_out"}
        ELSE IF total_images <= 1 \/ i = 0 THEN {"zoom_in"}
        ELSE IF i = total_images - 1 THEN {"zoom_out"}
        ELSE {MOTION_DIRECTIONS[((i - 1) % Len(MOTION_DIRECTIONS)) + 1]}

\* the call returns
PickMotionDirection ==
    /\ call.fn = "pick_motion_direction" /\ call.pc = "called"
    /\ \E r \in pick_motion_direction(call.args.animation_style, call.args.i,
                                      call.args.total_images) :
          call' = [call EXCEPT !.pc = "returned", !.result = r]
    /\ UNCHANGED <<CONFIG, rs, active_processes, api, batch, headless>>

\* the calls of the image loops: enumerate(image_files) with its length
InitMotion ==
    /\ CONFIG = DEFAULT_CONFIG
    /\ rs = [w \in Workers |-> IdleFrame]
    /\ active_processes = {}
    /\ api = NewApi
    /\ batch = NoBatch
    /\ headless = NoHeadless
    /\ \E style \in AnimationStyles, n \in 1..MaxSequenceImages, i \in 0..(MaxSequenceImages - 1) :
          /\ i < n
          /\ call = [NoCall EXCEPT
                        !.fn = "pick_motion_direction", !.pc = "called",
                        !.args = [animation_style |-> style, i |-> i, total_images |-> n]]

NextMotion == PickMotionDirection

SpecMotion == InitMotion /\ [][NextMotion]_vars

\* a call for the sequential style (the default for an empty or unknown
\* style name) has returned
SequentialReturned ==
    /\ call.fn = "pick_motion_direction" /\ call.pc = "returned"
    /\ call.args.animation_style \in {"Sequential Motion", "", "Spiral"}

\* C22: in the sequential style index 0 gets the zoom-in, index N-1 the
\* zoom-out when N > 1, every other index a pan, the pans taken in the order
\* right, left, down, up and round again; five images get zoom-in, three
\* pans, zoom-out, and one image gets the zoom-in only.
C22_SequentialDirections ==
    SequentialReturned =>
        LET i == call.args.i
            N == call.args.total_images
            pans == <<"right", "left", "down", "up", "right", "left", "down", "up">>
        IN  /\ i = 0 => call.result = "zoom_in"
            /\ (i = N - 1 /\ N > 1) => call.result = "zoom_out"
            /\ (0 < i /\ i < N - 1) => call.result = pans[i]
            /\ N = 5 => call.result = <<"zoom_in", "right", "left", "down", "zoom_out">>[i + 1]
            /\ N = 1 => call.result = "zoom_in"

\* the fifth pan of a sequence is the first direction again
C22_Witness ==
    /\ SequentialReturned
    /\ call.args.total_images = 7 /\ call.args.i = 5
    /\ call.result = "right"

\* ============================ the direction argument of create_motion_clip
\* A direction string is a word, written in lower or upper case, with or
\* without blanks around it; the empty word with blanks is a whitespace-only
\* string. None stands for a missing argument.
DirectionWords ==
    {"", "right", "left", "down", "up", "zoom_in", "zoom_out", "no_motion", "diagonal"}
Str(word) == [word |-> word, upper |-> FALSE, padded |-> FALSE]
None == [word |-> "None", upper |-> FALSE, padded |-> FALSE]
DirectionStrings ==
    [word : DirectionWords, upper : BOOLEAN, padded : BOOLEAN] \cup {None}

\* str.strip() and str.lower()
Strip(s) == [s EXCEPT !.padded = FALSE]
Lower(s) == [s EXCEPT !.upper = FALSE]

\* variant: an unknown pan direction makes the call return False
MotionFilter_Strict(image_exists, direction, extended_zoom) ==
    LET empty == direction = None \/ direction = Str("") \/ Strip(direction) = Str("")
        d1 == IF empty THEN Str("right") ELSE direction
        d2 == Lower(Strip(d1))
    IN  IF ~image_exists THEN [outcome |-> "false", motion |-> "none", warned |-> FALSE]
        ELSE IF extended_zoom
             THEN [outcome |-> "run_ffmpeg", motion |-> "extended_zoom", warned |-> empty]
        ELSE IF d1 \in {Str("no_motion"), Str("zoom_in"), Str("zoom_out")}
             THEN [outcome |-> "run_ffmpeg", motion |-> d1.word, warned |-> empty]
        ELSE IF d2.word \in {"right", "left", "down", "up"}
             THEN [outcome |-> "run_ffmpeg", motion |-> d2.word, warned |-> empty]
        ELSE [outcome |-> "false", motion |-> "none", warned |-> TRUE]

\* create_motion_clip up to its engine call: the motion of the filter it
\* builds from the direction argument, and whether a warning was logged
MotionFilter(image_exists, direction, extended_zoom) ==
    LET empty == direction = None \/ direction = Str("") \/ Strip(direction) = Str("")
        d1 == IF empty THEN Str("right") ELSE direction
        d2 == Lower(Strip(d1))
    IN  IF ~image_exists THEN [outcome |-> "false", motion |-> "none", warned |-> FALSE]
        ELSE IF extended_zoom
             THEN [outcome |-> "run_ffmpeg", motion |-> "extended_zoom", warned |-> empty]
        ELSE IF d1 \in {Str("no_motion"), Str("zoom_in"), Str("zoom_out")}
             THEN [outcome |-> "run_ffmpeg", motion |-> d1.word, warned |-> empty]
        ELSE IF d2.word \in {"right", "left", "down", "up"}
             THEN [outcome |-> "run_ffmpeg", motion |-> d2.word, warned |-> empty]
        ELSE [outcome |-> "run_ffmpeg", motion |-> "right", warned |-> TRUE]

\* the call reaches its engine run, or returns False before it
CreateMotionClip ==
    /\ call.fn = "create_motion_clip" /\ call.pc = "called"
    /\ call' = [call EXCEPT !.pc = "returned",
                   !.result = MotionFilter(call.args.image_exists, call.args.direction,
                                           call.args.extended_zoom)]
    /\ UNCHANGED <<CONFIG, rs, active_processes, api, batch, headless>>

InitDirection ==
    /\ CONFIG = DEFAULT_CONFIG
    /\ rs = [w \in Workers |-> IdleFrame]
    /\ active_processes = {}
    /\ api = NewApi
    /\ batch = NoBatch
    /\ headless = NoHeadless
    /\ \E d \in DirectionStrings, x \in BOOLEAN, z \in BOOLEAN :
          call = [NoCall EXCEPT
                     !.fn = "create_motion_clip", !.pc = "called",
                     !.args = [image_exists |-> x, direction |-> d, extended_zoom |-> z]]

NextDirection == CreateMotionClip

SpecDirection == InitDirection /\ [][NextDirection]_vars

\* the direction is missing, empty, whitespace-only, or not one of the
\* seven directions after trimming and lower-casing
BadDirection(d) ==
    \/ d = None
    \/ d.word \in {"", "diagonal"}
    \/ d.word \in {"zoom_in", "zoom_out", "no_motion"} /\ d # Str(d.word)

\* a call on an existing image with a bad direction has returned
BadDirectionReturned ==
    /\ call.fn = "create_motion_clip" /\ call.pc = "returned"
    /\ call.args.image_exists
    /\ BadDirection(call.args.direction)

\* C23: a call with an empty, whitespace-only or unrecognized direction
\* builds the clip as a right pan and logs a warning; it never returns
\* without building the clip.
C23_BadDirectionBecomesPanRight ==
    BadDirectionReturned =>
        /\ call.result.outcome = "run_ffmpeg"
        /\ call.result.motion = "right"
        /\ call.result.warned

\* C23 (amended): a bad direction never keeps the clip from being built;
\* with the extended zoom off the clip is a right pan and a warning is
\* logged, with the extended zoom on the configured zoom replaces every
\* direction.
C23_BadDirectionAmended ==
    BadDirectionReturned =>
        /\ call.result.outcome = "run_ffmpeg"
        /\ ~call.args.extended_zoom =>
              call.result.motion = "right" /\ call.result.warned
        /\ call.args.extended_zoom => call.result.motion = "extended_zoom"

\* an unrecognized word was turned into a right pan
C23_Witness ==
    /\ BadDirectionReturned
    /\ call.args.direction = Str("diagonal") /\ ~call.args.extended_zoom
    /\ call.result = [outcome |-> "run_ffmpeg", motion |-> "right", warned |-> TRUE]

\* ================================= AutoCaptioner.generate_srt_file
\* Times are counted in ticks of 0.05 s; a text is the sequence of the
\* lengths of its words. The cue times of a split segment are fractions of
\* ticks, kept exactly as numerator and (positive) denominator.
MaxSegments == 2
MaxTick == 5
MaxWords == 3

\* CONFIG["max_chars_per_line"], max_chars_multi and min_gap (0.1 s)
max_chars == 45
max_chars_multi == 80
min_gap == 2

\* the word lengths of the transcripts
WordLengths == {20, 30}

R(n, d) == [n |-> n, d |-> d]
RInt(k) == R(k, 1)
RAdd(a, b) == R(a.n * b.d + b.n * a.d, a.d * b.d)
RSub(a, b) == R(a.n * b.d - b.n * a.d, a.d * b.d)
RLess(a, b) == a.n * b.d < b.n * a.d
REq(a, b) == a.n * b.d = b.n * a.d
RMin(a, b) == IF RLess(b, a) THEN b ELSE a
RMax(a, b) == IF RLess(a, b) THEN b ELSE a

\* len(' '.join(words))
TextLen(words) == IF words = <<>> THEN 0 ELSE SumSeq(words) + Len(words) - 1

\* variant: every word a chunk of its own
GreedyChunks_PerWord(words, current_chunk, chunks) ==
    [i \in 1..Len(words) |-> <<words[i]>>]

\* the greedy grouping of the words into chunks of at most max_chars
RECURSIVE GreedyChunks(_, _, _)
GreedyChunks(words, current_chunk, chunks) ==
    IF words = <<>>
    THEN IF current_chunk # <<>> THEN Append(chunks, current_chunk) ELSE chunks
    ELSE LET word == Head(words)
             word_length == word + (IF current_chunk # <<>> THEN 1 ELSE 0)
             current_length == TextLen(current_chunk)
         IN  IF current_length + word_length <= max_chars
             THEN GreedyChunks(Tail(words), Append(current_chunk, word), chunks)
             ELSE GreedyChunks(Tail(words), <<word>>,
                               IF current_chunk # <<>> THEN Append(chunks, current_chunk)
                               ELSE chunks)

RECURSIVE SumTextLen(_)
SumTextLen(chunks) ==
    IF chunks = <<>> THEN 0 ELSE TextLen(Head(chunks)) + SumTextLen(Tail(chunks))

\* the cues of the chunks from the i-th on, the i-th starting at chunk_start
RECURSIVE ChunkCues(_, _, _, _)
ChunkCues(segment, chunks, i, chunk_start) ==
    IF i > Len(chunks) THEN <<>>
    ELSE LET total_chars == SumTextLen(chunks)
             segment_duration == segment.end - segment.start
             end_time == RInt(segment.end)
             chunk_duration == R(segment_duration * TextLen(chunks[i]), total_chars)
             min_chunk_duration == R(chunk_duration.n * 4, chunk_duration.d * 5)
             reached == RAdd(chunk_start, RMax(chunk_duration, min_chunk_duration))
             chunk_end == IF i = Len(chunks) THEN end_time ELSE RMin(reached, end_time)
         IN  <<[start |-> chunk_start, end |-> chunk_end, text |-> chunks[i]]>>
                 \o ChunkCues(segment, chunks, i + 1, chunk_end)

\* the single-line policy
RECURSIVE SingleLine(_)
SingleLine(segments) ==
    IF segments = <<>> THEN <<>>
    ELSE LET segment == Head(segments)
             text == segment.text
         IN  (IF TextLen(text) < 2 THEN <<>>
              ELSE IF TextLen(text) <= max_chars
                   THEN <<[start |-> RInt(segment.start), end |-> RInt(segment.end),
                           text |-> text]>>
              ELSE ChunkCues(segment, GreedyChunks(text, <<>>, <<>>), 1,
                             RInt(segment.start)))
             \o SingleLine(Tail(segments))

\* the multi-line policy: the loop over the segments from the j-th on
RECURSIVE MultiLine(_, _, _, _)
MultiLine(segments, j, current_sentence, current_start) ==
    IF j > Len(segments)
    THEN IF current_sentence # <<>>
         THEN <<[start |-> RInt(current_start),
                 end |-> RInt(segments[Len(segments)].end), text |-> current_sentence]>>
         ELSE <<>>
    ELSE LET segment == segments[j]
             text == segment.text
         IN  IF text = <<>> THEN MultiLine(segments, j + 1, current_sentence, current_start)
             ELSE IF current_sentence = <<>>
                  THEN MultiLine(segments, j + 1, text, segment.start)
             ELSE IF TextLen(current_sentence) + TextLen(text) + 1 < max_chars_multi
                  THEN MultiLine(segments, j + 1, current_sentence \o text, current_start)
             ELSE <<[start |-> RInt(current_start), end |-> RInt(segment.start),
                     text |-> current_sentence]>>
                      \o MultiLine(segments, j + 1, text, segment.start)

\* the gap loop: a cue is shrunk when the gap to the next cue is smaller
\* than min_gap and positive
AddGaps(sentences) ==
    [i \in 1..Len(sentences) |->
        IF i < Len(sentences)
           /\ RLess(RSub(sentences[i + 1].start, sentences[i].end), RInt(min_gap))
           /\ RLess(RInt(0), RSub(sentences[i + 1].start, sentences[i].end))
        THEN [sentences[i] EXCEPT !.end = RSub(sentences[i + 1].start, RInt(min_gap))]
        ELSE sentences[i]]

\* generate_srt_file with the toggles and animations off: the cue list of
\* the policy, and the list after the gap loop, which is written
generate_srt_file(segments, caption_type) ==
    LET sentences == IF caption_type = "single" THEN SingleLine(segments)
                     ELSE MultiLine(segments, 1, <<>>, 0)
    IN  [sentences |-> sentences, written |-> AddGaps(sentences)]

GenerateSrtFile ==
    /\ call.fn = "generate_srt_file" /\ call.pc = "called"
    /\ call' = [call EXCEPT !.pc = "returned",
                   !.result = generate_srt_file(call.args.segments, call.args.caption_type)]
    /\ UNCHANGED <<CONFIG, rs, active_processes, api, batch, headless>>

\* the transcripts: segments in time order that do not overlap, each with
\* a text of up to MaxWords words, or with a one-letter text
Transcripts ==
    LET Texts == SeqsUpTo(WordLengths, MaxWords) \cup {<<1>>}
        Segs == {s \in [start : 0..MaxTick, end : 0..MaxTick, text : Texts] :
                    s.start < s.end}
    IN  {ss \in SeqsUpTo(Segs, MaxSegments) :
            ss # <<>> /\ \A j \in 1..(Len(ss) - 1) : ss[j].end <= ss[j + 1].start}

InitSrt ==
    /\ CONFIG = DEFAULT_CONFIG
    /\ rs = [w \in Workers |-> IdleFrame]
    /\ active_processes = {}
    /\ api = NewApi
    /\ batch = NoBatch
    /\ headless = NoHeadless
    /\ \E ss \in Transcripts, t \in {"single", "multi"} :
          call = [NoCall EXCEPT
                     !.fn = "generate_srt_file", !.pc = "called",
                     !.args = [segments |-> ss, caption_type |-> t]]

NextSrt == GenerateSrtFile

SpecSrt == InitSrt /\ [][NextSrt]_vars

SrtReturned == call.fn = "generate_srt_file" /\ call.pc = "returned"

\* C24: in the written cue list consecutive cues are at least min_gap
\* apart; the gap loop shrinks the end of the earlier cue to the start of the
\* later one minus min_gap and changes nothing else, no start in particular.
C24_MinimumGapBetweenCues ==
    SrtReturned =>
        LET before == call.result.sentences
            after == call.result.written
        IN  /\ Len(after) = Len(before)
            /\ \A i \in 1..Len(after) :
                  /\ after[i].start = before[i].start
                  /\ after[i].text = before[i].text
                  /\ after[i].end # before[i].end =>
                        i < Len(after)
                        /\ REq(after[i].end, RSub(after[i + 1].start, RInt(min_gap)))
            /\ \A i \in 1..(Len(after) - 1) :
                  ~RLess(RSub(after[i + 1].start, after[i].end), RInt(min_gap))

RECURSIVE Flatten(_)
Flatten(ss) == IF ss = <<>> THEN <<>> ELSE Head(ss) \o Flatten(Tail(ss))

\* cues a..b of the list are the sub-lines of the segment: its words in
\* order, grouped greedily, on contiguous intervals from the start of the
\* segment to its end, each as long as its share of the characters
IsGreedyProportionalSplit(cues, a, b, segment) ==
    LET total == SumSeq([k \in 1..(b - a + 1) |-> TextLen(cues[a + k - 1].text)])
        D == segment.end - segment.start
    IN  /\ Flatten([k \in 1..(b - a + 1) |-> cues[a + k - 1].text]) = segment.text
        /\ REq(cues[a].start, RInt(segment.start))
        /\ REq(cues[b].end, RInt(segment.end))
        /\ \A k \in a..b :
              LET c == cues[k]
                  share == R(D * TextLen(c.text), total)
                  length == RSub(c.end, c.start)
              IN  /\ c.text # <<>>
                  /\ Len(c.text) > 1 => TextLen(c.text) <= max_chars
                  /\ REq(length, share)
                  /\ ~RLess(length, R(share.n * 4, share.d * 5))
                  /\ RLess(c.start, c.end)
        /\ \A k \in a..(b - 1) :
              /\ REq(cues[k].end, cues[k + 1].start)
              /\ TextLen(cues[k].text) + 1 + Head(cues[k + 1].text) > max_chars

IsLoopFit(c) == c.op \in {"loop", "trim"}

MaxFiles == 3

\* the suffixes of the files of the projects: one for each of
\* IMAGE_EXTENSIONS, VIDEO_EXTENSIONS, AUDIO_EXTENSIONS, and one of none
IMAGE_EXTENSIONS == {".jpg", ".png"}
VIDEO_EXTENSIONS == {".mp4", ".mov"}
AUDIO_EXTENSIONS == {".mp3", ".wav"}
Suffixes == {".jpg", ".mp4", ".mp3", ".txt"}

\* the render modes, and a string that names none
ScanModes == {"slideshow", "montage", "videos_only", "trailer"}

\* scan_project_media: the files sorted into lists by suffix
scan_project_media(files) ==
    LET images == SelectSeq(files, LAMBDA x : x \in IMAGE_EXTENSIONS)
        videos == SelectSeq(files, LAMBDA x : x \notin IMAGE_EXTENSIONS
                                              /\ x \in VIDEO_EXTENSIONS)
        audio == SelectSeq(files, LAMBDA x : x \notin IMAGE_EXTENSIONS
                                             /\ x \notin VIDEO_EXTENSIONS
                                             /\ x \in AUDIO_EXTENSIONS)
    IN  [images |-> images, videos |-> videos, audio |-> audio,
         main_audio |-> IF audio = <<>> THEN "None" ELSE audio[1]]

\* variant: a slideshow project may hold videos
check_project_eligibility_Lax(files, mode) ==
    LET media_info == scan_project_media(files)
        image_count == Len(media_info.images)
        video_count == Len(media_info.videos)
    IN  [eligible |-> IF mode = "slideshow" THEN image_count >= 1
                      ELSE IF mode \in {"montage", "videos_only"} THEN video_count >= 1
                      ELSE FALSE,
         media_counts |-> [images |-> image_count, videos |-> video_count,
                           audio |-> Len(media_info.audio)]]

check_project_eligibility(files, mode) ==
    LET media_info == scan_project_media(files)
        image_count == Len(media_info.images)
        video_count == Len(media_info.videos)
    IN  [eligible |-> IF mode = "slideshow" THEN image_count >= 1 /\ video_count = 0
                      ELSE IF mode \in {"montage", "videos_only"} THEN video_count >= 1
                      ELSE FALSE,
         media_counts |-> [images |-> image_count, videos |-> video_count,
                           audio |-> Len(media_info.audio)]]

\* the input validation of create_slideshow, on what render_project passes
\* for the project: FALSE when the call returns False for missing inputs
create_slideshow_accepts(files, mode) ==
    LET media_info == scan_project_media(files)
        m == prepare_media_for_mode(Len(media_info.images), media_info.videos, mode)
        main_audio == media_info.main_audio
    IN  IF main_audio = "None" THEN FALSE
        ELSE IF m.images = 0 /\ m.videos = <<>> THEN FALSE
        ELSE IF mode = "slideshow" THEN m.images # 0
        ELSE IF mode = "videos_only" THEN m.videos # <<>>
        ELSE TRUE

CheckProjectEligibility ==
    /\ call.fn = "check_project_eligibility" /\ call.pc = "called"
    /\ call' = [call EXCEPT !.pc = "returned",
                   !.result = check_project_eligibility(call.args.files, call.args.mode)]
    /\ UNCHANGED <<CONFIG, rs, active_processes, api, batch, headless>>

InitScan ==
    /\ CONFIG = DEFAULT_CONFIG
    /\ rs = [w \in Workers |-> IdleFrame]
    /\ active_processes = {}
    /\ api = NewApi
    /\ batch = NoBatch
    /\ headless = NoHeadless
    /\ \E files \in SeqsUpTo(Suffixes, MaxFiles), mode \in ScanModes :
          call = [NoCall EXCEPT
                     !.fn = "check_project_eligibility", !.pc = "called",
                     !.args = [files |-> files, mode |-> mode]]

NextScan == CheckProjectEligibility

SpecScan == InitScan /\ [][NextScan]_vars

ScanReturned == call.fn = "check_project_eligibility" /\ call.pc = "returned"

\* C27: a project found eligible for a mode passes the input validation of
\* create_slideshow for that mode: it has a main audio, an image for a
\* slideshow, a video for videos_only.
C27_EligibleProjectIsAccepted ==
    (ScanReturned /\ call.result.eligible) =>
        create_slideshow_accepts(call.args.files, call.args.mode)

\* C30: a project is eligible for slideshow exactly when it has an image
\* and no video, for montage and for videos_only exactly when it has a
\* video, and for no other mode string; the counts returned are the numbers
\* of image, video and audio files of the project.
C30_EligibilityRule ==
    ScanReturned =>
        LET files == call.args.files
            mode == call.args.mode
            Count(suffix) == Cardinality({j \in 1..Len(files) : files[j] = suffix})
        IN  /\ call.result.media_counts =
                  [images |-> Count(".jpg"), videos |-> Count(".mp4"), audio |-> Count(".mp3")]
            /\ mode = "slideshow" =>
                  (call.result.eligible <=> (Count(".jpg") >= 1 /\ Count(".mp4") = 0))
            /\ mode \in {"montage", "videos_only"} =>
                  (call.result.eligible <=> Count(".mp4") >= 1)
            /\ mode \notin {"slideshow", "montage", "videos_only"} => ~call.result.eligible

\* a project of an image, a video and an audio file was refused as a slideshow
C30_Witness ==
    /\ ScanReturned
    /\ call.args = [files |-> <<".jpg", ".mp4", ".mp3">>, mode |-> "slideshow"]
    /\ ~call.result.eligible
    /\ call.result.media_counts = [images |-> 1, videos |-> 1, audio |-> 1]

\* ---------------------------------------------------------------------
\* presets.detect_mode. A project_type string is a word of letters, written
\* in lower or upper case, with or without blanks around it, so that the
\* substring tests of the code are computed on the letters.
\* ---------------------------------------------------------------------
s_slideshow == <<"s", "l", "i", "d", "e", "s", "h", "o", "w">>
s_montage == <<"m", "o", "n", "t", "a", "g", "e">>
s_videos_only == <<"v", "i", "d", "e", "o", "s", "_", "o", "n", "l", "y">>
s_slide == <<"s", "l", "i", "d", "e">>
s_slides == <<"s", "l", "i", "d", "e", "s">>
s_photos == <<"p", "h", "o", "t", "o", "s">>
s_images == <<"i", "m", "a", "g", "e", "s">>
s_video == <<"v", "i", "d", "e", "o">>
s_videos == <<"v", "i", "d", "e", "o", "s">>
s_movie == <<"m", "o", "v", "i", "e">>
s_clip == <<"c", "l", "i", "p">>
s_unknown == <<"u", "n", "k", "n", "o", "w", "n">>

RENDER_MODES == {s_slideshow, s_montage, s_videos_only}

\* the dict literal of detect_mode, in its insertion order
mode_mapping ==
    << <<s_slide, s_slideshow>>, <<s_slides, s_slideshow>>, <<s_photos, s_slideshow>>,
       <<s_images, s_slideshow>>, <<s_video, s_montage>>, <<s_videos, s_videos_only>>,
       <<s_movie, s_montage>>, <<s_clip, s_montage>> >>

\* key in s, for two strings
Contains(key, s) ==
    \E i \in 0..(Len(s) - Len(key)) : SubSeq(s, i + 1, i + Len(key)) = key

\* the project directory given to detect_mode, if any
ProjectPaths == {"none", "missing", "with_videos", "without_videos", "scan_fails"}

\* "absent": the preset has no project_type key; None: it is JSON null
ProjectTypeWords ==
    {<<>>, s_slideshow, s_montage, s_videos_only, s_slide, s_slides, s_photos,
     s_images, s_video, s_videos, s_movie, s_clip, s_unknown}
ProjectTypes ==
    [word : ProjectTypeWords, upper : BOOLEAN, padded : BOOLEAN] \cup {None, Str("absent")}

detect_mode(config_project_type, project_path) ==
    IF config_project_type = None
    THEN [outcome |-> "raise", value |-> "AttributeError"]
    ELSE
    LET got == IF config_project_type = Str("absent") THEN Str(<<>>) ELSE config_project_type
        project_type == Strip(Lower(got)).word
        hits == {j \in 1..Len(mode_mapping) : Contains(mode_mapping[j][1], project_type)}
        first == CHOOSE j \in hits : \A h \in hits : j <= h
    IN  IF project_type \in RENDER_MODES THEN [outcome |-> "return", value |-> project_type]
        ELSE IF hits # {} THEN [outcome |-> "return", value |-> mode_mapping[first][2]]
        ELSE IF project_path = "with_videos" THEN [outcome |-> "return", value |-> s_montage]
        ELSE IF project_path = "without_videos" THEN [outcome |-> "return", value |-> s_slideshow]
        ELSE [outcome |-> "return", value |-> s_montage]

DetectMode ==
    /\ call.fn = "detect_mode" /\ call.pc = "called"
    /\ call' = [call EXCEPT !.pc = "returned",
                   !.result = detect_mode(call.args.project_type, call.args.project_path)]
    /\ UNCHANGED <<CONFIG, rs, active_processes, api, batch, headless>>

InitDetect ==
    /\ CONFIG = DEFAULT_CONFIG
    /\ rs = [w \in Workers |-> IdleFrame]
    /\ active_processes = {}
    /\ api = NewApi
    /\ batch = NoBatch
    /\ headless = NoHeadless
    /\ \E project_type \in ProjectTypes, project_path \in ProjectPaths :
          call = [NoCall EXCEPT
                     !.fn = "detect_mode", !.pc = "called",
                     !.args = [project_type |-> project_type, project_path |-> project_path]]

NextDetect == DetectMode

SpecDetect == InitDetect /\ [][NextDetect]_vars

DetectReturned == call.fn = "detect_mode" /\ call.pc = "returned"

\* C28: detect_mode always returns one of the three render modes: the
\* preset's project_type when, case-insensitively, it is one of them;
\* slideshow for slide, slides, photos, images; montage for video, movie,
\* clip; videos_only for videos; and montage when project_type is absent or
\* unrecognized and no project path is given.
C28_DetectMode ==
    DetectReturned =>
        LET given == call.args.project_type
            word == IF given = Str("absent") THEN <<>> ELSE given.word
            recognized == RENDER_MODES \cup {mode_mapping[j][1] : j \in 1..Len(mode_mapping)}
        IN  /\ call.result.outcome = "return"
            /\ call.result.value \in RENDER_MODES
            /\ (given # None /\ word \in RENDER_MODES) => call.result.value = word
            /\ (given # None /\ word \in {s_slide, s_slides, s_photos, s_images})
                  => call.result.value = s_slideshow
            /\ (given # None /\ word \in {s_video, s_movie, s_clip})
                  => call.result.value = s_montage
            /\ (given # None /\ word = s_videos) => call.result.value = s_videos_only
            /\ (given # None /\ word \notin recognized /\ call.args.project_path = "none")
                  => call.result.value = s_montage

\* ---------------------------------------------------------------------
\* presets.extract_preset_profiles. JSON data is a scalar, a list or a dict;
\* a dict is a function from its keys to JSON data.
\* ---------------------------------------------------------------------
Scalar == [t |-> "scalar", d |-> <<>>]
List == [t |-> "list", d |-> <<>>]
Dict(d) == [t |-> "dict", d |-> d]

\* "preset" and "crf" are members of PRESET_KEYS, the other keys are not
PresetDataKeys == {"preset", "metadata", "metadata_v2", "profile1", "crf"}
PRESET_KEYS == {"project_type", "crf", "preset"}
StartsWithMetadata(k) == k \in {"metadata", "metadata_v2"}

ProfileConfig == Dict([project_type |-> Scalar])
PresetDataValues ==
    {Scalar, Dict(<<>>), ProfileConfig, Dict([profile1 |-> ProfileConfig])}
PresetData ==
    {Dict(d) : d \in UNION {[S -> PresetDataValues] : S \in SUBSET PresetDataKeys}}
        \cup {List}

\* The generator of line 67 filters on a name k that is bound nowhere: its
\* first item raises NameError, and only a dict without items gets past it.
extract_preset_profiles(preset_data) ==
    IF preset_data.t # "dict" THEN [outcome |-> "raise", value |-> "AttributeError"]
    ELSE
    LET d == preset_data.d
        format1 == "preset" \in DOMAIN d /\ d["preset"].t = "dict"
        profiles == IF format1 THEN d["preset"].d
                    ELSE [k \in {k \in DOMAIN d : ~StartsWithMetadata(k)} |-> d[k]]
    IN  IF ~format1 /\ DOMAIN d # {} THEN [outcome |-> "raise", value |-> "NameError"]
        ELSE IF DOMAIN profiles = {} THEN [outcome |-> "raise", value |-> "PresetError"]
        ELSE [outcome |-> "return", value |-> profiles]

ExtractPresetProfiles ==
    /\ call.fn = "extract_preset_profiles" /\ call.pc = "called"
    /\ call' = [call EXCEPT !.pc = "returned",
                   !.result = extract_preset_profiles(call.args.preset_data)]
    /\ UNCHANGED <<CONFIG, rs, active_processes, api, batch, headless>>

InitExtract ==
    /\ CONFIG = DEFAULT_CONFIG
    /\ rs = [w \in Workers |-> IdleFrame]
    /\ active_processes = {}
    /\ api = NewApi
    /\ batch = NoBatch
    /\ headless = NoHeadless
    /\ \E preset_data \in PresetData :
          call = [NoCall EXCEPT
                     !.fn = "extract_preset_profiles", !.pc = "called",
                     !.args = [preset_data |-> preset_data]]

NextExtract == ExtractPresetProfiles

SpecExtract == InitExtract /\ [][NextExtract]_vars

ExtractReturned == call.fn = "extract_preset_profiles" /\ call.pc = "returned"

\* C29: extract_preset_profiles returns the dict under "preset" when there
\* is one; for a collection of named profile dicts it returns them without
\* the keys that start with "metadata"; for a flat config with a known
\* preset key it returns it as the profile "default"; for anything else it
\* raises PresetError, and it raises no other exception.
C29_ThreePresetFormats ==
    ExtractReturned =>
        LET data == call.args.preset_data
            d == data.d
            named == {k \in DOMAIN d : ~StartsWithMetadata(k)}
            wrapped == data.t = "dict" /\ "preset" \in DOMAIN d /\ d["preset"].t = "dict"
            direct == /\ data.t = "dict" /\ ~wrapped /\ named # {}
                      /\ \A k \in named : d[k].t = "dict"
            flat == /\ data.t = "dict" /\ ~wrapped /\ ~direct
                    /\ DOMAIN d \cap PRESET_KEYS # {}
            Returns(profiles) ==
                call.result.outcome = "return" /\ call.result.value = profiles
        IN  /\ call.result.outcome = "raise" => call.result.value = "PresetError"
            /\ (wrapped /\ DOMAIN d["preset"].d # {}) => Returns(d["preset"].d)
            /\ direct => Returns([k \in named |-> d[k]])
            /\ flat => Returns([default |-> data])
            /\ (~wrapped /\ ~direct /\ ~flat) => call.result.outcome = "raise"

\* ---------------------------------------------------------------------
\* utils.truncate_path. A path is a non-empty sequence of components, a
\* component a non-empty string of letters; strings are tuples of characters.
\* ---------------------------------------------------------------------
MaxComponents == 3
MaxNameLen == 3
MaxLength == 10
Letters == {"a", "b"}
Names == UNION {[1..n -> Letters] : n \in 1..MaxNameLen}
Paths == UNION {[1..n -> Names] : n \in 1..MaxComponents}

RECURSIVE JoinSlash(_)
JoinSlash(parts) ==
    IF Len(parts) = 1 THEN parts[1]
    ELSE parts[1] \o <<"/">> \o JoinSlash(Tail(parts))

\* str(path), path.name and str(path.parent) of pathlib
PathStr(path) == JoinSlash(path)
PathName(path) == path[Len(path)]
PathParentStr(path) ==
    IF Len(path) = 1 THEN <<".">> ELSE JoinSlash(SubSeq(path, 1, Len(path) - 1))

\* s[k:] and s[:k] of a Python string
SliceFrom(s, k) ==
    IF k >= 0 THEN SubSeq(s, k + 1, Len(s)) ELSE SubSeq(s, Max(1, Len(s) + k + 1), Len(s))
SliceTo(s, k) ==
    IF k >= 0 THEN SubSeq(s, 1, Min(k, Len(s))) ELSE SubSeq(s, 1, Len(s) + k)

Ellipsis == <<".", ".", ".">>

truncate_path(path, max_length) ==
    LET path_str == PathStr(path)
        filename == PathName(path)
        remaining == max_length - Len(filename) - 3
        parent0 == PathParentStr(path)
        parent == IF Len(parent0) > remaining THEN SliceTo(parent0, remaining) ELSE parent0
    IN  IF Len(path_str) <= max_length THEN path_str
        ELSE IF Len(filename) >= max_length - 3
             THEN Ellipsis \o SliceFrom(filename, -(max_length - 3))
        ELSE IF remaining > 0 THEN parent \o Ellipsis \o <<"/">> \o filename
        ELSE Ellipsis \o <<"/">> \o filename

TruncatePath ==
    /\ call.fn = "truncate_path" /\ call.pc = "called"
    /\ call' = [call EXCEPT !.pc = "returned",
                   !.result = truncate_path(call.args.path, call.args.max_length)]
    /\ UNCHANGED <<CONFIG, rs, active_processes, api, batch, headless>>

InitTruncate ==
    /\ CONFIG = DEFAULT_CONFIG
    /\ rs = [w \in Workers |-> IdleFrame]
    /\ active_processes = {}
    /\ api = NewApi
    /\ batch = NoBatch
    /\ headless = NoHeadless
    /\ \E path \in Paths, max_length \in 0..MaxLength :
          call = [NoCall EXCEPT
                     !.fn = "truncate_path", !.pc = "called",
                     !.args = [path |-> path, max_length |-> max_length]]

NextTruncate == TruncatePath

SpecTruncate == InitTruncate /\ [][NextTruncate]_vars

TruncateReturned == call.fn = "truncate_path" /\ call.pc = "returned"

EndsWith(s, suffix) ==
    Len(suffix) <= Len(s) /\ SubSeq(s, Len(s) - Len(suffix) + 1, Len(s)) = suffix

\* C31: truncate_path returns a string of at most max_length characters; a
\* path within the limit is returned unchanged, and a truncated result
\* contains "..." and ends with the file name.
C31_TruncatePathFits ==
    TruncateReturned =>
        LET path_str == PathStr(call.args.path)
        IN  /\ Len(call.result) <= call.args.max_length
            /\ Len(path_str) <= call.args.max_length => call.result = path_str
            /\ Len(path_str) > call.args.max_length =>
                  /\ Contains(Ellipsis, call.result)
                  /\ EndsWith(call.result, PathName(call.args.path))

\* C32: a crossfade assembly of N > 1 clips runs N - 1 xfade steps in clip
\* order. Step i is issued only after step i-1 has returned successfully,
\* combines the output of step i-1 (clips[0] for the first step) with
\* clips[i], at the offset max(0, duration of the running result - d); the
\* assembly succeeds after exactly N - 1 steps.
C32_CrossfadeStepsInOrder ==
    [][\A w \in Workers :
        LET f == rs[w]
            g == rs'[w]
            i == g.nproc
            running == IF i = 1 THEN f.wd[f.clips[1]] ELSE f.wd[CrossfadeName(i - 1)]
        IN  /\ (f.pc \in {"apply_crossfade_transitions", "xf_step"} /\ IssuesCommand(w)) =>
                  /\ Len(f.clips) > 1 /\ i \in 1..(Len(f.clips) - 1)
                  /\ g.nproc = f.nproc + 1
                  /\ i > 1 => (f.pc = "xf_step" /\ f.rc /\ f.cmd.out = CrossfadeName(i - 1))
                  /\ g.cmd.op = "xfade"
                  /\ g.cmd.srcs = <<running, f.wd[f.clips[i + 1]]>>
                  /\ g.cmd.out = CrossfadeName(i)
                  /\ g.cmd.off = (IF running.dur > CONFIG.crossfade_duration
                                  THEN running.dur - CONFIG.crossfade_duration ELSE 0)
            /\ (f.pc = "xf_step" /\ CrossfadeSucceeded(g)) =>
                  g.nproc = Len(g.clips) - 1]_vars

\* three clips assembled in two steps, the second on the output of the first
C32_Witness ==
    \E w \in Workers :
        /\ CrossfadeSucceeded(rs[w]) /\ Len(rs[w].clips) = 3 /\ rs[w].nproc = 2
        /\ rs[w].cmd.out = CrossfadeName(2)
        /\ CONFIG.crossfade_duration = 1
        /\ rs[w].cmd.srcs[1].dur = ClipDurs(rs[w])[1] + ClipDurs(rs[w])[2] - 1
        /\ rs[w].cmd.off = rs[w].cmd.srcs[1].dur - 1

\* C33: in the montage the overlay is applied to each intro clip by itself
\* and to the single un-looped cycle, before any looping: a loop-fit of the
\* cycle is issued only after the overlay stage, to the remaining time, and
\* on a cycle that has not been looped before.
C33_OverlayBeforeLooping ==
    [][\A w \in Workers :
        LET f == rs[w]
            g == rs'[w]
        IN  /\ (IssuesCommand(w) /\ g.k \in {"mo_loop", "mo_loop2"}) =>
                  /\ g.cmd.op = "loop"
                  /\ f.pc = "mo_slideshow_master"
                  /\ f.overlaid_slideshow_base # NoName
                  /\ f.slideshow_base = CycleName
                  /\ g.cmd.t = f.remaining_time
            /\ (IssuesCommand(w) /\ g.k = "mo_overlay_intro_done") =>
                  g.cmd.srcs = <<f.wd[f.intro_clips[g.i + 1]]>>
            /\ (IssuesCommand(w) /\ g.k = "mo_overlay_cycle_done") =>
                  g.cmd.srcs = <<f.wd[CycleName]>>]_vars

\* a direct call of create_slideshow in which os.remove may fail on one of
\* the motion clips
InitCleanup ==
    /\ CONFIG \in ConfigSpace
    /\ \E n \in 0..MaxImages, vs \in SeqsUpTo(VideoDurations, MaxVideos),
          a \in AudioDurations, bg \in BOOLEAN, ov \in OverlayArgs,
          u \in SUBSET {ImageName(j) : j \in 0..(MaxImages - 1)} :
          LET m == prepare_media_for_mode(n, vs, CONFIG.project_type) IN
          /\ CONFIG.use_overlay = (ov # "none")
          /\ Cardinality(u) <= 1
          /\ \A c \in u : c[2] < m.images
          /\ rs = [w \in Workers |->
                  IF w = 1
                  THEN [IdleFrame EXCEPT !.pc = "create_slideshow",
                           !.image_files = m.images, !.video_files = m.videos,
                           !.main_audio = a, !.bg_music = bg, !.overlay_video = ov,
                           !.undeletable = u]
                  ELSE IdleFrame]
    /\ active_processes = {}
    /\ api = NewApi
    /\ batch = NoBatch
    /\ headless = NoHeadless
    /\ call = NoCall

SpecCleanup == InitCleanup /\ [][NextRender]_vars

\* the overlay and loop-fit stages of the slideshow and of the montage
OverlayAndLoopStages ==
    {"ss_overlay", "ss_overlay_done", "ss_loop", "mo_loop", "mo_overlay_intro",
     "mo_overlay_intro_done", "mo_overlay_cycle", "mo_overlay_cycle_done", "mo_loop2"}
AtStage(f) == IF f.pc = "run_ffmpeg" THEN f.k ELSE f.pc
MotionClipsLeft(f) == {n \in DOMAIN f.wd : n[1] = "image.mp4"}
\* a step of thread w that stays in the pipeline removes a motion clip
DeletesClip(w) ==
    /\ rs'[w].pc # "returned"
    /\ MotionClipsLeft(rs[w]) \ MotionClipsLeft(rs'[w]) # {}
\* the step of thread w completes the assembly of the cycle
AssemblesCycle(w) ==
    /\ rs[w].pc \in {"ss_xfade", "ss_concat", "ss_concat_fb",
                     "mo_xfade", "mo_concat", "mo_concat_fb"}
    /\ rs[w].rc
    /\ CycleName \notin DOMAIN rs[w].wd \/ rs[w].cmd.out = CycleName
    /\ CycleName \in DOMAIN rs'[w].wd

\* C34 (as stated): no motion clip remains in the working directory when
\* the overlay or loop-fit stage starts, and no clip is deleted before the
\* cycle has been assembled successfully.
C34_ClipsRemovedAfterAssembly ==
    [][\A w \in Workers :
        /\ AtStage(rs'[w]) \in OverlayAndLoopStages => MotionClipsLeft(rs'[w]) = {}
        /\ DeletesClip(w) => AssemblesCycle(w)]_vars

\* C34 (amended): the only motion clips that remain when the overlay or
\* loop-fit stage starts are those os.remove failed on, and no clip is
\* deleted before the cycle has been assembled successfully.
C34_ClipsRemovedAmended ==
    [][\A w \in Workers :
        /\ AtStage(rs'[w]) \in OverlayAndLoopStages =>
              MotionClipsLeft(rs'[w]) = Range(rs'[w].clips) \cap rs'[w].undeletable
        /\ DeletesClip(w) => AssemblesCycle(w)]_vars

\* a slideshow of two images reached its overlay stage with the cycle on
\* disk and both motion clips deleted
C34_Witness ==
    \E w \in Workers :
        /\ rs[w].pc = "ss_overlay" /\ Len(rs[w].clips) = 2
        /\ rs[w].undeletable = {}
        /\ CycleName \in DOMAIN rs[w].wd /\ MotionClipsLeft(rs[w]) = {}

\* C35: at most one render worker thread is executing at any time:
\* generate_video starts a worker only when no worker started before is
\* still running.
C35_AtMostOneWorker ==
    [][\A w \in Workers :
        (rs[w].pc = "idle" /\ rs'[w].pc = "w_start") =>
            /\ \A u \in Workers : ~Alive(rs[u])
            /\ Cardinality({u \in Workers : Alive(rs'[u])}) = 1]_vars

\* the handles of the engine processes running inside run_ffmpeg on behalf
\* of the API
InFlight == {<<w, rs[w].nproc>> : w \in {v \in Workers : rs[v].pc = "run_ffmpeg" /\ rs[v].tracked}}

C37_FadeOutOnlyWhenNotLooped ==
    [][\A w \in Workers :
        LET f == rs[w]
            g == rs'[w]
        IN  (/\ f.pc \in {"mo_xfade", "mo_concat", "mo_concat_fb"}
             /\ f.slideshow_base = NoName /\ g.slideshow_base = CycleName) =>
                LET cycle == g.wd[CycleName]
                    will_loop == f.remaining_time > f.image_files * CONFIG.image_duration
                    looped == f.remaining_time > cycle.dur
                IN  /\ will_loop <=> looped
                    /\ cycle.fo => ~looped]_vars

TempFiles == {"subtitle_path", "temp_output_path", "audio_path"}

\* the call at position pc, returning ret once it has passed `finally`
AC_At(pc, c) == [c EXCEPT !.pc = pc]
AC_Return(val, c) == [c EXCEPT !.pc = "finally", !.result.ret = val]

\* captions disabled -> True; video missing or model not loaded -> False
\* (all three before the try statement)
AC_Enter ==
    /\ call.fn = "add_captions_to_video" /\ call.pc = "called"
    /\ \E loaded \in BOOLEAN :
          call' = IF ~call.args.captions_enabled
                  THEN [call EXCEPT !.pc = "returned", !.result.ret = "true"]
                  ELSE IF ~call.args.video_exists \/ ~loaded
                  THEN [call EXCEPT !.pc = "returned", !.result.ret = "false"]
                  ELSE IF call.args.karaoke_effect_enabled THEN AC_At("extract", call)
                  ELSE AC_At("transcribe", call)
    /\ UNCHANGED <<CONFIG, rs, active_processes, api, batch, headless>>

\* karaoke: ffmpeg extracts the audio; it exits 0, or fails leaving nothing
\* or a partial file, or subprocess.run raises
AC_Extract ==
    /\ call.fn = "add_captions_to_video" /\ call.pc = "extract"
    /\ \E outcome \in {"exit_0", "failed", "failed_partial", "raised"} :
          call' = IF outcome = "exit_0"
                  THEN AC_At("karaoke_words",
                             [call EXCEPT !.result.files = @ \cup {"audio_path"}])
                  ELSE IF outcome = "failed_partial"
                  THEN AC_Return("false", [call EXCEPT !.result.files = @ \cup {"audio_path"}])
                  ELSE AC_Return("false", call)
    /\ UNCHANGED <<CONFIG, rs, active_processes, api, batch, headless>>

\* transcribe_with_word_timestamps (it catches its exceptions), removal of
\* the audio file, generate_karaoke_ass
AC_KaraokeWords ==
    /\ call.fn = "add_captions_to_video" /\ call.pc = "karaoke_words"
    /\ \E words \in BOOLEAN, written \in BOOLEAN :
          LET c == [call EXCEPT !.result.files = @ \ {"audio_path"}] IN
          call' = IF ~words THEN AC_Return("true", c)
                  ELSE IF ~written THEN AC_Return("false", c)
                  ELSE AC_At("check_subtitle",
                             [c EXCEPT !.result.files = @ \cup {"subtitle_path"}])
    /\ UNCHANGED <<CONFIG, rs, active_processes, api, batch, headless>>

\* standard captions: transcribe_universal raises, finds no segments, or
\* finds some and generate_srt_file writes the subtitle file
AC_Transcribe ==
    /\ call.fn = "add_captions_to_video" /\ call.pc = "transcribe"
    /\ \E outcome \in {"raised", "no_segments", "segments"} :
          call' = IF outcome = "raised" THEN AC_Return("false", call)
                  ELSE IF outcome = "no_segments" THEN AC_Return("true", call)
                  ELSE AC_At("check_subtitle",
                             [call EXCEPT !.result.files = @ \cup {"subtitle_path"}])
    /\ UNCHANGED <<CONFIG, rs, active_processes, api, batch, headless>>

\* the subtitle file must exist; then burn_subtitles writes the temporary
\* output: it succeeds, or fails leaving nothing or a partial file
AC_Burn ==
    /\ call.fn = "add_captions_to_video" /\ call.pc = "check_subtitle"
    /\ \E outcome \in {"true", "false", "false_partial"} :
          call' = IF "subtitle_path" \notin call.result.files
                  THEN AC_Return("false", call)
                  ELSE IF outcome = "true"
                  THEN AC_At("move", [call EXCEPT !.result.files = @ \cup {"temp_output_path"},
                                                  !.result.burned = TRUE])
                  ELSE IF outcome = "false_partial"
                  THEN AC_Return("false",
                                 [call EXCEPT !.result.files = @ \cup {"temp_output_path"}])
                  ELSE AC_Return("false", call)
    /\ UNCHANGED <<CONFIG, rs, active_processes, api, batch, headless>>

\* shutil.move(temp_output_path, video_path)
AC_Move ==
    /\ call.fn = "add_captions_to_video" /\ call.pc = "move"
    /\ call' = AC_Return("true", [call EXCEPT !.result.files = @ \ {"temp_output_path"},
                                              !.result.video = "captioned"])
    /\ UNCHANGED <<CONFIG, rs, active_processes, api, batch, headless>>

\* finally: the subtitle file and the temporary output are removed
AC_Finally ==
    /\ call.fn = "add_captions_to_video" /\ call.pc = "finally"
    /\ call' = [call EXCEPT !.pc = "returned",
                   !.result.files = @ \ {"subtitle_path", "temp_output_path"}]
    /\ UNCHANGED <<CONFIG, rs, active_processes, api, batch, headless>>

add_captions_to_video ==
    \/ AC_Enter \/ AC_Extract \/ AC_KaraokeWords \/ AC_Transcribe
    \/ AC_Burn \/ AC_Move \/ AC_Finally

InitCaptions ==
    /\ CONFIG = DEFAULT_CONFIG
    /\ rs = [w \in Workers |-> IdleFrame]
    /\ active_processes = {}
    /\ api = NewApi
    /\ batch = NoBatch
    /\ headless = NoHeadless
    /\ \E captions_enabled \in BOOLEAN, video_exists \in BOOLEAN,
          karaoke_effect_enabled \in BOOLEAN, live_timing_enabled \in BOOLEAN,
          caption_type \in {"single", "multi"} :
          call = [NoCall EXCEPT
                     !.fn = "add_captions_to_video", !.pc = "called",
                     !.args = [captions_enabled |-> captions_enabled,
                               video_exists |-> video_exists,
                               karaoke_effect_enabled |-> karaoke_effect_enabled,
                               live_timing_enabled |-> live_timing_enabled,
                               caption_type |-> caption_type],
                     !.result = [ret |-> "none", files |-> {}, burned |-> FALSE,
                                 video |-> IF video_exists THEN "original" ELSE "missing"]]

NextCaptions == add_captions_to_video

SpecCaptions == InitCaptions /\ [][NextCaptions]_vars

CaptionsReturned == call.fn = "add_captions_to_video" /\ call.pc = "returned"

\* C39: add_captions_to_video replaces the original video only after the
\* subtitles were burned successfully, leaves it unchanged on every other
\* path, and on every path none of its temporary files (subtitle file,
\* temporary captioned output, extracted karaoke audio) exists when it
\* returns.
C39_CaptionsReplaceOnlyAfterBurn ==
    /\ (call.fn = "add_captions_to_video" /\ call.result.video = "captioned")
          => call.result.burned
    /\ CaptionsReturned =>
          /\ ~call.result.burned =>
                call.result.video = (IF call.args.video_exists THEN "original" ELSE "missing")
          /\ call.result.files \cap TempFiles = {}
====
